---- MODULE Spec2Model ----
(***************************************************************************)
(* A model of bun-http-template's routing core: the RouteBuilder           *)
(* (src/structures/RouteBuilder.ts), endpoint derivation, route table      *)
(* assembly and request dispatch (src/http.ts).                            *)
(*                                                                         *)
(* Strings whose characters the code inspects (file paths, endpoints,      *)
(* request pathnames) are sequences of one-character strings.              *)
(***************************************************************************)
EXTENDS Integers, Sequences, FiniteSets, TLC

VARIABLES
    filePath,             \* getEndpoint: the argument of the call under study
    endpoint,             \* getEndpoint: its result, the empty string before the call
    middlewareMap,        \* the argument the builder was constructed with
    middlewarePerMethod,  \* RouteBuilder.middlewarePerMethod
    handlers,             \* RouteBuilder.handlers (a Map: method -> listener)
    schemas,              \* RouteBuilder.schemas (a Map: method -> schema set)
    thrown,               \* the Error the last builder call threw, NoError if none
    routeFiles,           \* buildRoutes: what walkDirectory found
    pending,              \* buildRoutes: the route files whose import has not settled
    routes,               \* buildRoutes: the RoutesMap under assembly
    built,                \* buildRoutes: what builder.build() returned, by route file
    derivations,          \* buildRoutes: the calls of getEndpoint, counted by argument
    logged,               \* what logger.info / logger.error were called with
    boot,                 \* position of bootstrap, the default export of http.ts
    bunRoutes,            \* bootstrap: the routes handed to Bun.serve
    requests,             \* the requests in flight, by id
    uptime                \* process.uptime(), in whole seconds

vars == <<filePath, endpoint, middlewareMap, middlewarePerMethod, handlers, schemas, thrown,
          routeFiles, pending, routes, built, derivations, logged, boot, bunRoutes, requests, uptime>>

(***************************************************************************)
(* Strings as character sequences                                          *)
(***************************************************************************)

\* String.prototype.toLowerCase on one character (the letters the model uses).
Lower(c) ==
    CASE c = "I" -> "i" [] c = "N" -> "n" [] c = "D" -> "d" [] c = "E" -> "e"
      [] c = "X" -> "x" [] c = "R" -> "r" [] c = "O" -> "o" [] c = "T" -> "t"
      [] c = "S" -> "s" [] c = "J" -> "j" [] OTHER -> c

LowerStr(s) == [i \in 1..Len(s) |-> Lower(s[i])]

\* s.startsWith(p, i - 1): p occurs in s at (1-based) position i.
OccursAt(s, p, i) ==
    /\ i >= 1
    /\ i + Len(p) - 1 <= Len(s)
    /\ \A k \in 1..Len(p) : s[i + k - 1] = p[k]

EndsWithCI(s, p) ==
    /\ Len(p) <= Len(s)
    /\ LowerStr(SubSeq(s, Len(s) - Len(p) + 1, Len(s))) = p

\* s.replace(pat, rep) with a string pattern: the first occurrence only.
ReplaceFirst(s, pat, rep) ==
    LET hits == {i \in 1..Len(s) : OccursAt(s, pat, i)}
    IN IF pat = <<>> THEN rep \o s
       ELSE IF hits = {} THEN s
       ELSE LET i == CHOOSE j \in hits : \A k \in hits : j <= k
            IN SubSeq(s, 1, i - 1) \o rep \o SubSeq(s, i + Len(pat), Len(s))

\* s.replace(/c/g, d) for one-character c and d.
ReplaceAllChar(s, c, d) == [i \in 1..Len(s) |-> IF s[i] = c THEN d ELSE s[i]]

(***************************************************************************)
(* Endpoint derivation (src/http.ts)                                       *)
(***************************************************************************)

\* `${import.meta.dirname}/routes`, for a source tree at /src
routesDirectory == <<"/", "s", "r", "c", "/", "r", "o", "u", "t", "e", "s">>

\* path.replace(/\\/g, '/')
normalize(path) == ReplaceAllChar(path, "\\", "/")

\* .replace(/\.(ts|js)$/i, '')
StripExtension(s) ==
    IF EndsWithCI(s, <<".", "t", "s">>) \/ EndsWithCI(s, <<".", "j", "s">>)
    THEN SubSeq(s, 1, Len(s) - 3)
    ELSE s

\* .replace(/_/g, ':')
UnderscoresToColons(s) == ReplaceAllChar(s, "_", ":")

\* LeadingSlash without the optional slash in its pattern: .replace(/^/, '/')
LeadingSlashAlways(s) == <<"/">> \o s

\* .replace(/^\/?/, '/')
LeadingSlash(s) == IF Len(s) >= 1 /\ s[1] = "/" THEN s ELSE <<"/">> \o s

\* .replace(/\/?(index|root)$/i, ''): the leftmost match, so the slash before
\* the word is part of the match when there is one.
StripIndexOrRoot(s) ==
    LET word == IF EndsWithCI(s, <<"i", "n", "d", "e", "x">>) THEN 5
                ELSE IF EndsWithCI(s, <<"r", "o", "o", "t">>) THEN 4
                ELSE 0
        rest == SubSeq(s, 1, Len(s) - word)
    IN IF word = 0 THEN s
       ELSE IF Len(rest) >= 1 /\ rest[Len(rest)] = "/"
            THEN SubSeq(rest, 1, Len(rest) - 1)
            ELSE rest

getEndpoint(path) ==
    LET relative == LeadingSlash(UnderscoresToColons(StripExtension(
                        ReplaceFirst(normalize(path), normalize(routesDirectory), <<>>))))
        stripped == StripIndexOrRoot(relative)
        cleaned  == IF stripped = <<>> THEN <<"/">> ELSE stripped
    IN IF cleaned[1] = "/" THEN cleaned ELSE <<"/">> \o cleaned

(***************************************************************************)
(* RouteBuilder (src/structures/RouteBuilder.ts)                           *)
(***************************************************************************)

RouteMethod == {"get", "post", "put", "delete", "patch", "head", "options"}

\* String.prototype.toUpperCase on one character.
Upper(c) ==
    CASE c = "a" -> "A" [] c = "b" -> "B" [] c = "c" -> "C" [] c = "d" -> "D" [] c = "e" -> "E" [] c = "f" -> "F"
      [] c = "g" -> "G" [] c = "h" -> "H" [] c = "i" -> "I" [] c = "j" -> "J" [] c = "k" -> "K" [] c = "l" -> "L"
      [] c = "m" -> "M" [] c = "n" -> "N" [] c = "o" -> "O" [] c = "p" -> "P" [] c = "q" -> "Q" [] c = "r" -> "R"
      [] c = "s" -> "S" [] c = "t" -> "T" [] c = "u" -> "U" [] c = "v" -> "V" [] c = "w" -> "W" [] c = "x" -> "X"
      [] c = "y" -> "Y" [] c = "z" -> "Z"
      [] OTHER -> c

UpperStr(s) == [i \in 1..Len(s) |-> Upper(s[i])]

\* The characters of the method names the model can name: the seven of
\* RouteMethod and trace, in lower case, capitalised and in upper case.
MethodSpellings ==
    { <<"get", <<"g", "e", "t">>>>,
      <<"Get", <<"G", "e", "t">>>>,
      <<"GET", <<"G", "E", "T">>>>,
      <<"post", <<"p", "o", "s", "t">>>>,
      <<"Post", <<"P", "o", "s", "t">>>>,
      <<"POST", <<"P", "O", "S", "T">>>>,
      <<"put", <<"p", "u", "t">>>>,
      <<"Put", <<"P", "u", "t">>>>,
      <<"PUT", <<"P", "U", "T">>>>,
      <<"delete", <<"d", "e", "l", "e", "t", "e">>>>,
      <<"Delete", <<"D", "e", "l", "e", "t", "e">>>>,
      <<"DELETE", <<"D", "E", "L", "E", "T", "E">>>>,
      <<"patch", <<"p", "a", "t", "c", "h">>>>,
      <<"Patch", <<"P", "a", "t", "c", "h">>>>,
      <<"PATCH", <<"P", "A", "T", "C", "H">>>>,
      <<"head", <<"h", "e", "a", "d">>>>,
      <<"Head", <<"H", "e", "a", "d">>>>,
      <<"HEAD", <<"H", "E", "A", "D">>>>,
      <<"options", <<"o", "p", "t", "i", "o", "n", "s">>>>,
      <<"Options", <<"O", "p", "t", "i", "o", "n", "s">>>>,
      <<"OPTIONS", <<"O", "P", "T", "I", "O", "N", "S">>>>,
      <<"trace", <<"t", "r", "a", "c", "e">>>>,
      <<"Trace", <<"T", "r", "a", "c", "e">>>>,
      <<"TRACE", <<"T", "R", "A", "C", "E">>>> }

Spell(word) == (CHOOSE p \in MethodSpellings : p[1] = word)[2]

Word(characters) == (CHOOSE p \in MethodSpellings : p[2] = characters)[1]

\* toUpperCase of every method name spelled out, computed once.
UpperCased == [word \in {p[1] : p \in MethodSpellings} |-> Word(UpperStr(Spell(word)))]

\* String(method).toUpperCase(): every character in upper case.
toUpperCase(method) == UpperCased[method]

\* A middleware of a sequence: a user function (id names it) or the closure
\* _validateSchema(method) returns (id is the method it captured).
UserMiddleware(id) == [kind |-> "user", id |-> id]
ValidationMiddleware(method) == [kind |-> "validate", id |-> method]

\* The name the model gives the middleware of middleware/logging.ts.
LoggingId == "logging"

\* A value of a MiddlewareMap: undefined, one middleware, or an array of them.
Undefined == [tag |-> "undefined", v |-> <<>>]
One(m) == [tag |-> "one", v |-> <<m>>]
Many(ms) == [tag |-> "array", v |-> ms]

\* value === undefined ? [] : Array.isArray(value) ? value : [value]
toArray(value) ==
    IF value.tag = "undefined" THEN <<>>
    ELSE IF value.tag = "array" THEN value.v
    ELSE <<value.v[1]>>

\* The field initialisers of a new RouteBuilder.
EmptyMiddlewarePerMethod == [m \in RouteMethod |-> <<>>]
\* new Map()
EmptyMap == <<>>

\* map.set(key, value)
MapSet(map, key, value) ==
    [k \in DOMAIN map \cup {key} |-> IF k = key THEN value ELSE map[k]]

\* constructor(middlewareMap): every key of the map replaces (or adds) the
\* sequence stored under that key.
\* given.defined is FALSE when the argument is undefined.
Constructor(given) ==
    IF ~given.defined THEN EmptyMiddlewarePerMethod
    ELSE [k \in RouteMethod \cup DOMAIN given.map |->
            IF k \in DOMAIN given.map THEN toArray(given.map[k])
            ELSE EmptyMiddlewarePerMethod[k]]

\* The Error a builder call throws.
NoError == [error |-> "", method |-> ""]
AlreadyDefined(what, method) == [error |-> what, method |-> toUpperCase(method)]
CallbackError == [error |-> "schemaCallback threw", method |-> ""]

\* schema without its guard: a second call replaces the schema set and appends
\* a second validation middleware.
schemaUnguarded(method, callbackResult, b) ==
    IF callbackResult = CallbackError
    THEN [b EXCEPT !.thrown = CallbackError]
    ELSE [b EXCEPT !.thrown = NoError,
                   !.schemas = MapSet(b.schemas, method, callbackResult),
                   !.middlewarePerMethod[method] =
                        b.middlewarePerMethod[method] \o <<ValidationMiddleware(method)>>]

\* schema putting the validation middleware first: [validate, ...currentMiddleware]
schemaPrepends(method, callbackResult, b) ==
    IF method \in DOMAIN b.schemas
    THEN [b EXCEPT !.thrown = AlreadyDefined("Schemas already defined", method)]
    ELSE IF callbackResult = CallbackError
    THEN [b EXCEPT !.thrown = CallbackError]
    ELSE [b EXCEPT !.thrown = NoError,
                   !.schemas = MapSet(b.schemas, method, callbackResult),
                   !.middlewarePerMethod[method] =
                        <<ValidationMiddleware(method)>> \o b.middlewarePerMethod[method]]

\* schema of a builder whose on() fixes the middleware of the method: a
\* schema set defined after the handler is recorded but not validated.
schemaBeforeOnOnly(method, callbackResult, b) ==
    IF method \in DOMAIN b.schemas
    THEN [b EXCEPT !.thrown = AlreadyDefined("Schemas already defined", method)]
    ELSE IF callbackResult = CallbackError
    THEN [b EXCEPT !.thrown = CallbackError]
    ELSE IF method \in DOMAIN b.handlers
    THEN [b EXCEPT !.thrown = NoError,
                   !.schemas = MapSet(b.schemas, method, callbackResult)]
    ELSE [b EXCEPT !.thrown = NoError,
                   !.schemas = MapSet(b.schemas, method, callbackResult),
                   !.middlewarePerMethod[method] =
                        b.middlewarePerMethod[method] \o <<ValidationMiddleware(method)>>]

\* schema replacing the schema set of a method that has one (the validation
\* middleware is already in the sequence).
schemaReplaces(method, callbackResult, b) ==
    IF callbackResult = CallbackError
    THEN [b EXCEPT !.thrown = CallbackError]
    ELSE IF method \in DOMAIN b.schemas
    THEN [b EXCEPT !.thrown = NoError,
                   !.schemas = MapSet(b.schemas, method, callbackResult)]
    ELSE [b EXCEPT !.thrown = NoError,
                   !.schemas = MapSet(b.schemas, method, callbackResult),
                   !.middlewarePerMethod[method] =
                        b.middlewarePerMethod[method] \o <<ValidationMiddleware(method)>>]

\* schema appending the validation middleware before anything else: the
\* sequence grows even when the call then throws.
schemaAppendsFirst(method, callbackResult, b) ==
    LET grown == [b EXCEPT !.middlewarePerMethod[method] =
                        b.middlewarePerMethod[method] \o <<ValidationMiddleware(method)>>]
    IN IF method \in DOMAIN b.schemas
       THEN [grown EXCEPT !.thrown = AlreadyDefined("Schemas already defined", method)]
       ELSE IF callbackResult = CallbackError
       THEN [grown EXCEPT !.thrown = CallbackError]
       ELSE [grown EXCEPT !.thrown = NoError,
                          !.schemas = MapSet(b.schemas, method, callbackResult)]

\* schema appending the validation middleware to the sequence of every
\* method instead of the one it was called for.
schemaEveryMethod(method, callbackResult, b) ==
    IF method \in DOMAIN b.schemas
    THEN [b EXCEPT !.thrown = AlreadyDefined("Schemas already defined", method)]
    ELSE IF callbackResult = CallbackError
    THEN [b EXCEPT !.thrown = CallbackError]
    ELSE [b EXCEPT !.thrown = NoError,
                   !.schemas = MapSet(b.schemas, method, callbackResult),
                   !.middlewarePerMethod =
                        [k \in DOMAIN b.middlewarePerMethod |->
                            b.middlewarePerMethod[k] \o <<ValidationMiddleware(method)>>]]

\* schema(method, schemaCallback): the builder fields after the call and the
\* Error it threw (NoError if none). callbackResult is what schemaCallback(z)
\* returns, or CallbackError when it throws.
schema(method, callbackResult, b) ==
    IF method \in DOMAIN b.schemas
    THEN [b EXCEPT !.thrown = AlreadyDefined("Schemas already defined", method)]
    ELSE IF callbackResult = CallbackError
    THEN [b EXCEPT !.thrown = CallbackError]
    ELSE [b EXCEPT !.thrown = NoError,
                   !.schemas = MapSet(b.schemas, method, callbackResult),
                   !.middlewarePerMethod[method] =
                        b.middlewarePerMethod[method] \o <<ValidationMiddleware(method)>>]

\* on without its guard: a second call replaces the listener.
onUnguarded(method, listener, b) ==
    [b EXCEPT !.thrown = NoError, !.handlers = MapSet(b.handlers, method, listener)]

\* on(method, listener). super.on only adds the listener to the EventEmitter's
\* own list, which no code of the repository reads.
on(method, listener, b) ==
    IF method \in DOMAIN b.handlers
    THEN [b EXCEPT !.thrown = AlreadyDefined("Handler already defined", method)]
    ELSE [b EXCEPT !.thrown = NoError, !.handlers = MapSet(b.handlers, method, listener)]

\* build looping over the methods of middlewarePerMethod instead of the
\* entries of handlers: a key for every method that has middleware, too.
buildPerMiddleware(hs, mpm) ==
    [K \in {toUpperCase(m) : m \in DOMAIN hs \cup {n \in RouteMethod : mpm[n] # <<>>}} |->
        LET method == CHOOSE m \in RouteMethod : toUpperCase(m) = K
        IN [middlewareSequence |-> mpm[method],
            handler |-> IF method \in DOMAIN hs THEN hs[method] ELSE ""]]

\* build(): one compiled handler per entry of handlers, each closing over the
\* middleware sequence stored for its method at the time of the call.
build(hs, mpm) ==
    [K \in {toUpperCase(m) : m \in DOMAIN hs} |->
        LET method == CHOOSE m \in DOMAIN hs : toUpperCase(m) = K
        IN [middlewareSequence |-> mpm[method], handler |-> hs[method]]]

(***************************************************************************)
(* Responses                                                               *)
(***************************************************************************)

\* A Response: id names the object when user code built it, "" otherwise.
\* The error of a JSON error body is the sequence of the pieces of its text.
\* Response.json(data, { status })
ResponseJson(data, status) == [status |-> status, body |-> data, id |-> ""]

\* new Response(null, { 'status': 403 })
Forbidden == [status |-> 403, body |-> [empty |-> TRUE], id |-> ""]

NoResponse == [status |-> 0, body |-> [empty |-> TRUE], id |-> ""]

(***************************************************************************)
(* The validation middleware (_validateSchema)                             *)
(***************************************************************************)

\* validationParts with the URL parameters checked first.
validationPartsParamsFirst ==
    << [key |-> "params",  name |-> "URL Parameters"],
       [key |-> "body",    name |-> "Body"],
       [key |-> "query",   name |-> "Query"],
       [key |-> "headers", name |-> "Headers"] >>

validationParts ==
    << [key |-> "body",    name |-> "Body"],
       [key |-> "query",   name |-> "Query"],
       [key |-> "headers", name |-> "Headers"],
       [key |-> "params",  name |-> "URL Parameters"] >>

InvalidJson == "Invalid JSON in request body"

\* part.getData(request): the data, or the message of the Error thrown.
\* request.raw holds what the runtime yields for each part: the outcome of
\* req.json(), the search parameters, the header entries, req.params.
getData(key, request) ==
    IF key = "body" /\ ~request.raw.body.ok
    THEN [threw |-> TRUE, message |-> InvalidJson, data |-> <<>>]
    ELSE [threw |-> FALSE, message |-> "",
          data |-> IF key = "body" THEN request.raw.body.value ELSE request.raw[key]]

\* schema.safeParse(data) for z.object({ f: z.string().min(1), ... }) over the
\* fields schema.required: unknown keys are stripped from the output. A schema
\* with throws set stands for one whose safeParse throws.
Issues(sch, data) == {f \in sch.required : f \notin DOMAIN data \/ data[f] = ""}

safeParse(sch, data) ==
    IF sch.throws THEN [threw |-> TRUE, success |-> FALSE, data |-> <<>>, issues |-> {}]
    ELSE IF Issues(sch, data) # {}
    THEN [threw |-> FALSE, success |-> FALSE, data |-> <<>>, issues |-> Issues(sch, data)]
    ELSE [threw |-> FALSE, success |-> TRUE,
          data |-> [f \in sch.required |-> data[f]], issues |-> {}]

\* CatchBlock without the test of the message: every error a 500.
CatchBlockGeneric(message) == ResponseJson([error |-> <<"Schema validation error">>], 500)

\* CatchBlock answering every error like the malformed body: a 400 with the
\* error's message.
CatchBlockMessage(message) == ResponseJson([error |-> <<message>>], 400)

\* The catch block of the validation middleware.
CatchBlock(message) ==
    IF message = InvalidJson
    THEN ResponseJson([error |-> <<message>>], 400)
    ELSE ResponseJson([error |-> <<"Schema validation error">>], 500)

\* The properties the runtime's request class defines as accessors with a
\* getter and no setter: Request.body, Request.headers, BunRequest.params.
\* `query` is no property of the class.
GetterOnly == {"body", "headers", "params"}

\* The TypeError of a write, in module (strict) code, to a property that has
\* a getter only.
ReadOnlyWrite == "Attempted to assign to readonly property."

\* (request as any)[part.key] = result.data
AssignValidated(assigned, key, data, result) == MapSet(assigned, key, result.data)

\* What one continuation of the validation middleware comes to: it has
\* returned (finished; continue |-> TRUE for undefined, else the response), or
\* it waits on `await part.getData(request)` for the part numbered part.
\* assigned: the request properties written so far; extracted: the parts
\* getData was called for, in order.
Returned(continue, response, assigned, extracted) ==
    [finished |-> TRUE, continue |-> continue, response |-> response,
     assigned |-> assigned, extracted |-> extracted, part |-> 0]

Awaiting(j, assigned, extracted) ==
    [finished |-> FALSE, continue |-> FALSE, response |-> NoResponse,
     assigned |-> assigned, extracted |-> Append(extracted, validationParts[j].key), part |-> j]

\* The first part from the i-th on that the schema set has a schema for
\* (`if (schema === undefined) continue`), or one past the last part.
NextPart(i, schemaSet) ==
    LET rest == {j \in i..Len(validationParts) : validationParts[j].key \in DOMAIN schemaSet}
    IN IF rest = {} THEN Len(validationParts) + 1
       ELSE CHOOSE j \in rest : \A k \in rest : j <= k

\* The loop over validationParts from part i on, as far as its next await:
\* getData is called for the next part that has a schema and the closure
\* waits for it, or the loop is over and the closure returns undefined.
ValidateFrom(i, schemaSet, assigned, extracted) ==
    IF NextPart(i, schemaSet) > Len(validationParts)
    THEN Returned(TRUE, NoResponse, assigned, extracted)
    ELSE Awaiting(NextPart(i, schemaSet), assigned, extracted)

\* The closure resumed once the getData of part j has settled: the catch
\* block for an error thrown, a 400 for data the schema rejects, else the
\* write of the validated data and the loop from the next part on. The write
\* throws when the request object has no setter for the part; the catch
\* block turns that into a 500.
ValidatePart(j, schemaSet, request) ==
    LET part   == validationParts[j]
        got    == getData(part.key, request)
        result == safeParse(schemaSet[part.key], got.data)
    IN IF got.threw
       THEN Returned(FALSE, CatchBlock(got.message), request.assigned, request.extracted)
       ELSE IF result.threw
       THEN Returned(FALSE, CatchBlock("safeParse threw"), request.assigned, request.extracted)
       ELSE IF ~result.success
       THEN Returned(FALSE,
                     ResponseJson([error |-> <<part.name, " validation failed">>,
                                   issues |-> result.issues], 400),
                     request.assigned, request.extracted)
       ELSE IF part.key \in request.raw.readonly
       THEN Returned(FALSE, CatchBlock(ReadOnlyWrite), request.assigned, request.extracted)
       ELSE ValidateFrom(j + 1, schemaSet,
                         AssignValidated(request.assigned, part.key, got.data, result),
                         request.extracted)

\* One continuation of the middleware _validateSchema(method) returns, on a
\* request: from its call to its first await or its return (request.part is
\* 0), or from the await of part request.part to the next await or the
\* return. `this.schemas.get(method)` is read at the call; no schema is
\* defined while requests are served, so the set is the same at every
\* continuation.
validateSchema(method, schemaMap, request) ==
    IF request.part # 0
    THEN ValidatePart(request.part, schemaMap[method], request)
    ELSE IF method \notin DOMAIN schemaMap
    THEN Returned(TRUE, NoResponse, request.assigned, <<>>)
    ELSE ValidateFrom(1, schemaMap[method], request.assigned, <<>>)

(***************************************************************************)
(* Route matching of the server runtime (Bun.serve's routes)               *)
(***************************************************************************)

\* s.split('/')
RECURSIVE Split(_)
Split(s) ==
    LET hits == {i \in 1..Len(s) : s[i] = "/"}
    IN IF hits = {} THEN <<s>>
       ELSE LET i == CHOOSE j \in hits : \A k \in hits : j <= k
            IN <<SubSeq(s, 1, i - 1)>> \o Split(SubSeq(s, i + 1, Len(s)))

IsParam(segment) == Len(segment) >= 2 /\ segment[1] = ":"

IsPattern(key) == \E i \in 1..Len(Split(key)) : IsParam(Split(key)[i])

\* A parameterised route matches a pathname of as many segments, segment by
\* segment; a parameter segment matches any non-empty segment.
MatchesPattern(key, pathname) ==
    LET ps == Split(key)
        qs == Split(pathname)
    IN /\ Len(ps) = Len(qs)
       /\ \A i \in 1..Len(ps) :
            IF IsParam(ps[i]) THEN qs[i] # <<>> ELSE ps[i] = qs[i]

\* The text of a path segment as a string (the names and values the model uses).
Str(segment) ==
    CASE segment = <<"i", "d">> -> "id"
      [] segment = <<"7">> -> "7"
      [] segment = <<"s", "l", "u", "g">> -> "slug"
      [] OTHER -> "?"

\* request.params: the parameter segments captured by the matched route.
Params(key, pathname) ==
    LET ps == Split(key)
        qs == Split(pathname)
        at == {i \in 1..Len(ps) : IsParam(ps[i])}
    IN [n \in {Str(Tail(ps[i])) : i \in at} |->
            LET i == CHOOSE j \in at : Str(Tail(ps[j])) = n IN Str(qs[i])]

\* The keys of the routes that match a pathname: the static route equal to
\* it when there is one, the matching parameterised routes otherwise.
Matching(table, pathname) ==
    IF pathname \in DOMAIN table /\ ~IsPattern(pathname) THEN {pathname}
    ELSE {k \in DOMAIN table : IsPattern(k) /\ MatchesPattern(k, pathname)}

(***************************************************************************)
(* Inputs                                                                  *)
(***************************************************************************)

Star == <<"*">>
HealthPath == <<"/", "h", "e", "a", "l", "t", "h">>
ReadyPath == HealthPath \o <<"/", "r", "e", "a", "d", "y">>

\* src/routes/users/_id.ts, the route module that exports the builder
UsersIdFile == routesDirectory \o <<"/", "u", "s", "e", "r", "s", "/", "_", "i", "d", ".", "t", "s">>

\* The methods the builder calls of the model are made with.
OpMethods == {"get", "post"}

Listeners == {"h1", "h2"}

\* The constructor arguments tried: none; an array for one method, a single
\* middleware for another and an undefined value for a third; a '*' key; the
\* logging middleware before another.
MiddlewareMaps ==
    { [defined |-> FALSE, map |-> <<>>],
      [defined |-> TRUE,
       map |-> [k \in {"get", "post", "put"} |->
                  IF k = "get" THEN Many(<<UserMiddleware("A"), UserMiddleware("B")>>)
                  ELSE IF k = "post" THEN One(UserMiddleware("B"))
                  ELSE Undefined]],
      [defined |-> TRUE,
       map |-> [k \in {"*", "post"} |->
                  IF k = "*" THEN Many(<<UserMiddleware("A")>>)
                  ELSE One(UserMiddleware("B"))]],
      [defined |-> TRUE,
       map |-> [k \in {"get"} |->
                  Many(<<UserMiddleware(LoggingId), UserMiddleware("B")>>)]] }

\* z.object({ f: z.string().min(1) }) for each f of required
ObjectSchema(required) == [required |-> required, throws |-> FALSE]
ThrowingSchema == [required |-> {}, throws |-> TRUE]

\* The schema sets schemaCallback returns.
BodySchemas == [k \in {"body"} |-> ObjectSchema({"message"})]
QueryParamsSchemas ==
    [k \in {"query", "params"} |->
        IF k = "query" THEN ObjectSchema({"page"}) ELSE ObjectSchema({"id"})]
BodyHeadersSchemas ==
    [k \in {"body", "headers"} |->
        IF k = "body" THEN ObjectSchema({"message"}) ELSE ThrowingSchema]
BodyAuthorizationSchemas ==
    [k \in {"body", "headers"} |->
        IF k = "body" THEN ObjectSchema({"message"}) ELSE ObjectSchema({"authorization"})]

\* The schema calls tried: the method and what schemaCallback(z) does.
SchemaCalls ==
    { [method |-> "get", result |-> QueryParamsSchemas],
      [method |-> "post", result |-> BodySchemas],
      [method |-> "post", result |-> BodyHeadersSchemas],
      [method |-> "post", result |-> BodyAuthorizationSchemas],
      [method |-> "post", result |-> CallbackError] }

\* What req.json() yields: a rejection, or the parsed value.
NoBody == [ok |-> FALSE, value |-> <<>>]

Bodies ==
    { NoBody,
      [ok |-> TRUE, value |-> [message |-> "hi"]],
      [ok |-> TRUE, value |-> [message |-> ""]],
      [ok |-> TRUE, value |-> [message |-> "hi", extra |-> "x"]] }

Queries == { <<>>, [page |-> "2", sort |-> "asc"] }

Headers == [host |-> "localhost"]

HttpMethods == {"GET", "POST", "DELETE"}

UsersSevenPath == <<"/", "u", "s", "e", "r", "s", "/", "7">>
NopePath == <<"/", "n", "o", "p", "e">>

\* The request objects handed over: the runtime's own, whose body, headers
\* and params have a getter only, or an object that accepts every write.
RequestObjects == {GetterOnly, {}}

\* The requests sent. Under the route module's endpoint: a GET with each
\* query, a POST with each body, a DELETE; elsewhere one of each method.
RequestInputs ==
    { [method |-> "GET", pathname |-> UsersSevenPath, body |-> NoBody, query |-> q,
       headers |-> Headers, readonly |-> ro] : q \in Queries, ro \in RequestObjects }
    \cup
    { [method |-> "POST", pathname |-> UsersSevenPath, body |-> b, query |-> <<>>,
       headers |-> Headers, readonly |-> ro] : b \in Bodies, ro \in RequestObjects }
    \cup
    { [method |-> m, pathname |-> p, body |-> NoBody, query |-> <<>>, headers |-> Headers,
       readonly |-> GetterOnly] :
        m \in HttpMethods, p \in {HealthPath, NopePath} }
    \cup
    { [method |-> "DELETE", pathname |-> UsersSevenPath, body |-> NoBody, query |-> <<>>,
       headers |-> Headers, readonly |-> GetterOnly] }

\* What a user middleware returns: nothing, true, false, a Response, or it throws.
MiddlewareResponse == [status |-> 401, body |-> [reason |-> "denied"], id |-> "mw"]
MiddlewareOutcomes == {"void", "true", "false", "response", "throw"}

\* What a business handler returns: a Response it built, a plain value, or it throws.
HandlerResponse == [status |-> 201, body |-> [created |-> "yes"], id |-> "handler"]
HandlerValue == [received |-> "hi"]
HandlerOutcomes == {"response", "value", "throw"}

\* The ids of the requests in flight.
InFlight == {1}

(***************************************************************************)
(* State                                                                   *)
(***************************************************************************)

\* What a call of logger.info or logger.error is recorded as: its level, the
\* text of its message that does not vary, and what the message is about
\* (a route file, an endpoint or pathname, method names or a signal, a query).
LogRecord(level, text, file, path, verbs, search) ==
    [level |-> level, text |-> text, file |-> file, endpoint |-> path, verbs |-> verbs,
     search |-> search]

\* logger.info(`↪ [${verbs}] ${endpoint}`)
RouteLoaded(e, verbs) == LogRecord("info", "route", <<>>, e, verbs, <<>>)

\* logger.error(`Failed to load ${filePath}`, error)
FailedToLoad(f) == LogRecord("error", "Failed to load", f, <<>>, {}, <<>>)

\* logger.error(error, 'Internal Server Error')
ErrorLogged == LogRecord("error", "Internal Server Error", <<>>, <<>>, {}, <<>>)

\* logger.info(`🚀 http://${server.hostname}:${server.port}   (health → /health)`)
Listening == LogRecord("info", "listening", <<>>, HealthPath, {}, <<>>)

\* logger.info(`${signal} received - shutting down`)
ShuttingDown(signal) == LogRecord("info", "received - shutting down", <<>>, <<>>, {signal}, <<>>)

\* A request slot. raw: what the runtime yields for each part of the request;
\* assigned: the request properties the validation middleware has written;
\* part: the part whose getData the validation middleware waits for (0 when
\* it is not running); extracted: the parts it has called getData for;
\* calls: the functions invoked for the request, in order, each with what it
\* returned; response: the response sent.
IdleRequest ==
    [state |-> "idle", method |-> "", pathname |-> <<>>,
     raw |-> [body |-> [ok |-> FALSE, value |-> <<>>], query |-> <<>>,
              headers |-> <<>>, params |-> <<>>, readonly |-> {}],
     assigned |-> <<>>, part |-> 0, extracted |-> <<>>, route |-> <<>>, idx |-> 0,
     calls |-> <<>>,
     response |-> NoResponse]

\* A call: fn is "user", "validate", "handler" or "route" (a single callable of
\* the table), id names the function, result is "void", "true", "false",
\* "response", "value" or "throw", returned is the Response a middleware
\* returned, extracted the parts the validation middleware read, observed the
\* request properties (as assigned by validation) the function was called with.
Call(fn, id, result, returned, extracted, observed) ==
    [fn |-> fn, id |-> id, result |-> result, returned |-> returned,
     extracted |-> extracted, observed |-> observed]

\* A RegisteredRoute: a single callable, or the method table a builder built.
FunctionEntry(name) == [kind |-> "function", fn |-> name, table |-> <<>>]
TableEntry(table) == [kind |-> "table", fn |-> "", table |-> table]

BuilderFields == [middlewarePerMethod |-> middlewarePerMethod, handlers |-> handlers,
                  schemas |-> schemas, thrown |-> thrown]

BuilderIdle ==
    /\ handlers = EmptyMap
    /\ schemas = EmptyMap
    /\ thrown = NoError

ServerDown ==
    /\ pending = {}
    /\ routes = <<>>
    /\ built = <<>>
    /\ derivations = <<>>
    /\ logged = {}
    /\ boot = "start"
    /\ bunRoutes = <<>>
    /\ requests = [r \in InFlight |-> IdleRequest]
    /\ uptime = 0

\* The state once the route module has run `new RouteBuilder(middlewareMap)`
\* and bootstrap has been called.
Init ==
    /\ filePath = <<>>
    /\ endpoint = <<>>
    /\ middlewareMap \in MiddlewareMaps
    /\ middlewarePerMethod = Constructor(middlewareMap)
    /\ BuilderIdle
    /\ routeFiles = {UsersIdFile}
    /\ ServerDown

(***************************************************************************)
(* The route module's calls on its builder                                 *)
(***************************************************************************)

\* The module of a discovered file is evaluated while its import is pending.
ModuleRunning == boot = "loading" /\ pending # {}

SchemaCall(method, callbackResult) ==
    /\ ModuleRunning
    /\ LET after == schema(method, callbackResult, BuilderFields)
       IN /\ schemas' = after.schemas
          /\ middlewarePerMethod' = after.middlewarePerMethod
          /\ handlers' = after.handlers
          /\ thrown' = after.thrown
    /\ UNCHANGED <<uptime, built, derivations, filePath, endpoint, middlewareMap, routeFiles, pending, routes,
                   logged, boot, bunRoutes, requests>>

OnCall(method, listener) ==
    /\ ModuleRunning
    /\ LET after == on(method, listener, BuilderFields)
       IN /\ schemas' = after.schemas
          /\ middlewarePerMethod' = after.middlewarePerMethod
          /\ handlers' = after.handlers
          /\ thrown' = after.thrown
    /\ UNCHANGED <<uptime, built, derivations, filePath, endpoint, middlewareMap, routeFiles, pending, routes,
                   logged, boot, bunRoutes, requests>>

(***************************************************************************)
(* buildRoutes and bootstrap (src/http.ts)                                 *)
(***************************************************************************)

\* The routes object literal, then walkDirectory.
SeedRoutes ==
    /\ boot = "start"
    /\ routes' = [k \in {HealthPath, ReadyPath} |->
                    IF k = HealthPath THEN FunctionEntry("health") ELSE FunctionEntry("ready")]
    /\ pending' = routeFiles
    /\ boot' = "loading"
    /\ UNCHANGED <<uptime, built, derivations, filePath, endpoint, middlewareMap, middlewarePerMethod, handlers, schemas, thrown,
                   routeFiles, logged, bunRoutes, requests>>

\* The call counts after one more call of getEndpoint with argument f.
Counted(counts, f) ==
    MapSet(counts, f, IF f \in DOMAIN counts THEN counts[f] + 1 ELSE 1)

\* ImportResolved deriving the endpoint of the derived endpoint:
\* getEndpoint(getEndpoint(filePath)).
ImportResolvedDerivesTwice(f) ==
    /\ boot = "loading"
    /\ f \in pending
    /\ LET e == getEndpoint(getEndpoint(f))
           table == build(handlers, middlewarePerMethod)
       IN /\ built' = MapSet(built, f, table)
          /\ routes' = MapSet(routes, e, TableEntry(table))
          /\ logged' = logged \cup {RouteLoaded(e, DOMAIN table)}
    /\ pending' = pending \ {f}
    /\ thrown' = NoError
    /\ derivations' = Counted(Counted(derivations, f), getEndpoint(f))
    /\ UNCHANGED <<uptime, filePath, endpoint, middlewareMap, middlewarePerMethod, handlers, schemas,
                   routeFiles, boot, bunRoutes, requests>>

\* The import of f resolved: the try block of the callback.
ImportResolved(f) ==
    /\ boot = "loading"
    /\ f \in pending
    /\ LET e == getEndpoint(f)
           table == build(handlers, middlewarePerMethod)
       IN /\ built' = MapSet(built, f, table)
          /\ routes' = MapSet(routes, e, TableEntry(table))
          /\ logged' = logged \cup {RouteLoaded(e, DOMAIN table)}
    /\ pending' = pending \ {f}
    /\ thrown' = NoError    \* the builder's last call is build(), which returned
    /\ derivations' = Counted(derivations, f)
    /\ UNCHANGED <<uptime, filePath, endpoint, middlewareMap, middlewarePerMethod, handlers, schemas,
                   routeFiles, boot, bunRoutes, requests>>

\* The import of f rejected (or build threw): the catch block of the callback.
ImportRejected(f) ==
    /\ boot = "loading"
    /\ f \in pending
    /\ logged' = logged \cup {FailedToLoad(f)}
    /\ pending' = pending \ {f}
    /\ UNCHANGED <<uptime, built, derivations, filePath, endpoint, middlewareMap, middlewarePerMethod, handlers, schemas, thrown,
                   routeFiles, routes, boot, bunRoutes, requests>>

\* The import of f resolved to a module without a default export: the
\* endpoint is derived, then builder.build() throws on undefined and the
\* catch block of the callback logs it.
NoDefaultExport(f) ==
    /\ boot = "loading"
    /\ f \in pending
    /\ derivations' = Counted(derivations, f)
    /\ logged' = logged \cup {FailedToLoad(f)}
    /\ pending' = pending \ {f}
    /\ UNCHANGED <<uptime, built, filePath, endpoint, middlewareMap, middlewarePerMethod, handlers,
                   schemas, thrown, routeFiles, routes, boot, bunRoutes, requests>>

\* Promise.all settled: routes['*'] = ..., return routes.
InstallCatchAll ==
    /\ boot = "loading"
    /\ pending = {}
    /\ routes' = MapSet(routes, Star, FunctionEntry("notFound"))
    /\ boot' = "assembled"
    /\ UNCHANGED <<uptime, built, derivations, filePath, endpoint, middlewareMap, middlewarePerMethod, handlers, schemas, thrown,
                   routeFiles, pending, logged, bunRoutes, requests>>

\* Serve without the await of buildRoutes: the server starts on the table
\* as it is while the imports are pending.
ServeWithoutAwait ==
    /\ boot \in {"loading", "assembled"}
    /\ bunRoutes' = [k \in DOMAIN routes \ {Star} |-> routes[k]]
    /\ boot' = "serving"
    /\ logged' = logged \cup {Listening}
    /\ UNCHANGED <<uptime, built, derivations, filePath, endpoint, middlewareMap, middlewarePerMethod, handlers,
                   schemas, thrown, routeFiles, pending, routes, requests>>

\* bootstrap after buildRoutes: wrap every entry but '*', Bun.serve, and log
\* the address the server listens on.
Serve ==
    /\ boot = "assembled"
    /\ bunRoutes' = [k \in DOMAIN routes \ {Star} |-> routes[k]]
    /\ boot' = "serving"
    /\ logged' = logged \cup {Listening}
    /\ UNCHANGED <<uptime, built, derivations, filePath, endpoint, middlewareMap, middlewarePerMethod, handlers, schemas, thrown,
                   routeFiles, pending, routes, requests>>

(***************************************************************************)
(* Serving a request                                                       *)
(***************************************************************************)

\* CallFunction with the catch-all's { status: 404 } left out.
CallFunctionDefaultStatus(name) ==
    CASE name = "health" -> ResponseJson([status |-> "ok", up |-> uptime], 200)
      [] name = "ready" -> ResponseJson([status |-> "ready"], 200)
      [] OTHER -> ResponseJson([error |-> <<"Not found">>], 200)

\* The single callables of the route table.
\* '/health': Response.json({ status: 'ok', ts, up }), up being
\* process.uptime() at the call
\* '/health/ready': Response.json({ status: 'ready', ts })
\* ts, the wall clock's Date.now(), is left out of the bodies.
\* '*': Response.json({ error: 'Not found' }, { status: 404 })
CallFunction(name) ==
    CASE name = "health" -> ResponseJson([status |-> "ok", up |-> uptime], 200)
      [] name = "ready" -> ResponseJson([status |-> "ready"], 200)
      [] OTHER -> ResponseJson([error |-> <<"Not found">>], 404)

MethodNotAllowed == ResponseJson([error |-> <<"Method Not Allowed">>], 405)

InternalServerError == ResponseJson([error |-> <<"Internal Server Error">>], 500)

\* The compiled handler a request is running: the entry of its route's method table.
Compiled(q) == bunRoutes[q.route].table[toUpperCase(q.method)]

\* The server runtime hands a request over.
Receive(r, input) ==
    /\ boot = "serving"
    /\ requests[r].state \in {"idle", "done"}
    /\ requests' = [requests EXCEPT ![r] =
            [IdleRequest EXCEPT !.state = "received",
                                !.method = input.method,
                                !.pathname = input.pathname,
                                !.raw = [body |-> input.body, query |-> input.query,
                                         headers |-> input.headers, params |-> <<>>,
                                         readonly |-> input.readonly]]]
    /\ UNCHANGED <<uptime, built, derivations, filePath, endpoint, middlewareMap, middlewarePerMethod, handlers, schemas, thrown,
                   routeFiles, pending, routes, logged, boot, bunRoutes>>

\* wrapRouteHandler without the test of methodHandler: calling undefined throws.
wrapRouteHandlerUnchecked(handler, q) ==
    IF handler.kind = "function"
    THEN [q EXCEPT !.state = "done",
                   !.calls = Append(q.calls, Call("route", handler.fn, "response",
                                                  CallFunction(handler.fn), <<>>, <<>>)),
                   !.response = CallFunction(handler.fn)]
    ELSE IF toUpperCase(q.method) \notin DOMAIN handler.table
    THEN [q EXCEPT !.state = "threw"]
    ELSE [q EXCEPT !.state = "compiled", !.idx = 1]

\* wrapRouteHandler treating a single callable as a table with GET only.
wrapRouteHandlerGetOnly(handler, q) ==
    IF handler.kind = "function"
    THEN IF q.method = "GET"
         THEN [q EXCEPT !.state = "done",
                        !.calls = Append(q.calls, Call("route", handler.fn, "response",
                                                       CallFunction(handler.fn), <<>>, <<>>)),
                        !.response = CallFunction(handler.fn)]
         ELSE [q EXCEPT !.state = "done", !.response = MethodNotAllowed]
    ELSE IF toUpperCase(q.method) \notin DOMAIN handler.table
    THEN [q EXCEPT !.state = "done", !.response = MethodNotAllowed]
    ELSE [q EXCEPT !.state = "compiled", !.idx = 1]

\* The function wrapRouteHandler(handler) returns, up to the call of a
\* compiled method handler: the request after it.
wrapRouteHandler(handler, q) ==
    IF handler.kind = "function"
    THEN [q EXCEPT !.state = "done",
                   !.calls = Append(q.calls, Call("route", handler.fn, "response",
                                                  CallFunction(handler.fn), <<>>, <<>>)),
                   !.response = CallFunction(handler.fn)]
    ELSE IF toUpperCase(q.method) \notin DOMAIN handler.table
    THEN [q EXCEPT !.state = "done", !.response = MethodNotAllowed]
    ELSE [q EXCEPT !.state = "compiled", !.idx = 1]

\* The runtime calls the wrapped handler of the route that matches the pathname.
WrappedRouteHandler(r) ==
    LET q == requests[r] IN
    /\ q.state = "received"
    /\ Matching(bunRoutes, q.pathname) # {}
    /\ LET key == CHOOSE k \in Matching(bunRoutes, q.pathname) : TRUE
       IN requests' = [requests EXCEPT ![r] =
            wrapRouteHandler(bunRoutes[key],
                             [q EXCEPT !.route = key, !.raw.params = Params(key, q.pathname)])]
    /\ UNCHANGED <<uptime, built, derivations, filePath, endpoint, middlewareMap, middlewarePerMethod, handlers, schemas, thrown,
                   routeFiles, pending, routes, logged, boot, bunRoutes>>

\* Fetch remembering its answer: routes[pathname] = routes['*'].
FetchRemembers(r) ==
    LET q == requests[r] IN
    /\ q.state = "received"
    /\ Matching(bunRoutes, q.pathname) = {}
    /\ requests' = [requests EXCEPT ![r] =
            [q EXCEPT !.state = "done",
                      !.calls = Append(q.calls, Call("route", routes[Star].fn, "response",
                                                     CallFunction(routes[Star].fn), <<>>, <<>>)),
                      !.response = CallFunction(routes[Star].fn)]]
    /\ routes' = MapSet(routes, q.pathname, routes[Star])
    /\ UNCHANGED <<uptime, built, derivations, filePath, endpoint, middlewareMap, middlewarePerMethod, handlers,
                   schemas, thrown, routeFiles, pending, logged, boot, bunRoutes>>

\* The fetch option of Bun.serve, called when no route matches.
Fetch(r) ==
    LET q == requests[r] IN
    /\ q.state = "received"
    /\ Matching(bunRoutes, q.pathname) = {}
    /\ LET catchAllHandler == routes[Star]
       IN requests' = [requests EXCEPT ![r] =
            IF catchAllHandler.kind = "function"
            THEN [q EXCEPT !.state = "done",
                           !.calls = Append(q.calls, Call("route", catchAllHandler.fn, "response",
                                                          CallFunction(catchAllHandler.fn), <<>>, <<>>)),
                           !.response = CallFunction(catchAllHandler.fn)]
            ELSE [q EXCEPT !.state = "done",
                           !.response = ResponseJson([error |-> <<"Not found">>], 404)]]
    /\ UNCHANGED <<uptime, built, derivations, filePath, endpoint, middlewareMap, middlewarePerMethod, handlers, schemas, thrown,
                   routeFiles, pending, routes, logged, boot, bunRoutes>>

\* AfterMiddleware testing `!result` for a Response only: false goes on.
AfterMiddlewareFalseGoesOn(q, call) ==
    IF call.result = "throw"
    THEN [q EXCEPT !.state = "threw", !.calls = Append(q.calls, call)]
    ELSE IF call.result = "response"
    THEN [q EXCEPT !.state = "done", !.calls = Append(q.calls, call),
                   !.response = call.returned]
    ELSE [q EXCEPT !.idx = q.idx + 1, !.calls = Append(q.calls, call)]

\* AfterMiddleware normalising a middleware's Response like a handler's
\* value: Response.json(result.body) with the default status.
AfterMiddlewareRewraps(q, call) ==
    IF call.result = "throw"
    THEN [q EXCEPT !.state = "threw", !.calls = Append(q.calls, call)]
    ELSE IF call.result = "response"
    THEN [q EXCEPT !.state = "done", !.calls = Append(q.calls, call),
                   !.response = ResponseJson(call.returned.body, 200)]
    ELSE IF call.result = "false"
    THEN [q EXCEPT !.state = "done", !.calls = Append(q.calls, call), !.response = Forbidden]
    ELSE [q EXCEPT !.idx = q.idx + 1, !.calls = Append(q.calls, call)]

\* What the compiled handler does with the result of `await middleware(...)`:
\* the exception propagates, a Response is returned, false gives a 403,
\* anything else goes on with the loop.
AfterMiddleware(q, call) ==
    IF call.result = "throw"
    THEN [q EXCEPT !.state = "threw", !.calls = Append(q.calls, call)]
    ELSE IF call.result = "response"
    THEN [q EXCEPT !.state = "done", !.calls = Append(q.calls, call),
                   !.response = call.returned]
    ELSE IF call.result = "false"
    THEN [q EXCEPT !.state = "done", !.calls = Append(q.calls, call), !.response = Forbidden]
    ELSE [q EXCEPT !.idx = q.idx + 1, !.calls = Append(q.calls, call)]

\* logger.info(`➥  ${ip} ${method} ${pathname}${search}`): the line the logging
\* middleware writes for a request. The address of the peer is not part of
\* the request the model carries; the search string is recorded as the
\* parameters it holds.
RequestLine(q) == LogRecord("info", "request", <<>>, q.pathname, {q.method}, q.raw.query)

\* The middleware of middleware/logging.ts: it logs the request line and
\* returns true.
logging(q) == [result |-> "true", line |-> RequestLine(q)]

\* One turn of the loop of the compiled handler: a user middleware. The
\* logging middleware does what its file says; any other returns what it likes.
RunUserMiddleware(r, outcome) ==
    LET q == requests[r] IN
    /\ q.state = "compiled"
    /\ q.idx <= Len(Compiled(q).middlewareSequence)
    /\ LET middleware == Compiled(q).middlewareSequence[q.idx]
       IN /\ middleware.kind = "user"
          /\ middleware.id = LoggingId => outcome = logging(q).result
          /\ logged' = IF middleware.id = LoggingId THEN logged \cup {logging(q).line}
                       ELSE logged
          /\ requests' = [requests EXCEPT ![r] =
                AfterMiddleware(q, Call("user", middleware.id, outcome,
                                        IF outcome = "response" THEN MiddlewareResponse
                                        ELSE NoResponse, <<>>, q.assigned))]
    /\ UNCHANGED <<uptime, built, derivations, filePath, endpoint, middlewareMap, middlewarePerMethod, handlers, schemas, thrown,
                   routeFiles, pending, routes, boot, bunRoutes>>

\* The request after a continuation of the validation middleware that ended
\* at an await: the parts written so far are on the request.
Suspended(q, v) ==
    [q EXCEPT !.assigned = v.assigned, !.part = v.part, !.extracted = v.extracted]

\* The request after a continuation v of the validation middleware id: it
\* waits at the await, or the middleware has returned and the compiled
\* handler goes on with what it returned.
AfterValidation(q, id, v) ==
    IF v.finished
    THEN AfterMiddleware([q EXCEPT !.assigned = v.assigned, !.part = 0, !.extracted = <<>>],
                         Call("validate", id, IF v.continue THEN "void" ELSE "response",
                              v.response, v.extracted, v.assigned))
    ELSE Suspended(q, v)

\* RunValidation of a validation middleware without its try/catch: what
\* the catch block answers with 500 is thrown on instead.
RunValidationUncaught(r) ==
    LET q == requests[r] IN
    /\ q.state = "compiled"
    /\ q.idx <= Len(Compiled(q).middlewareSequence)
    /\ LET middleware == Compiled(q).middlewareSequence[q.idx]
           v == validateSchema(middleware.id, schemas, q)
       IN /\ middleware.kind = "validate"
          /\ requests' = [requests EXCEPT ![r] =
                IF v.finished
                THEN AfterMiddleware([q EXCEPT !.assigned = v.assigned, !.part = 0,
                                               !.extracted = <<>>],
                                     Call("validate", middleware.id,
                                          IF v.continue THEN "void"
                                          ELSE IF v.response.status = 500 THEN "throw"
                                          ELSE "response",
                                          v.response, v.extracted, v.assigned))
                ELSE Suspended(q, v)]
    /\ UNCHANGED <<uptime, built, derivations, filePath, endpoint, middlewareMap, middlewarePerMethod, handlers,
                   schemas, thrown, routeFiles, pending, routes, logged, boot, bunRoutes>>

\* RunValidation of a validation middleware that keeps the validated data
\* in one place for the builder instead of on the request: every request in
\* flight sees what was validated last.
RunValidationShared(r) ==
    LET q == requests[r] IN
    /\ q.state = "compiled"
    /\ q.idx <= Len(Compiled(q).middlewareSequence)
    /\ LET middleware == Compiled(q).middlewareSequence[q.idx]
           v == validateSchema(middleware.id, schemas, q)
       IN /\ middleware.kind = "validate"
          /\ requests' = [s \in DOMAIN requests |->
                IF s = r
                THEN AfterValidation(q, middleware.id, v)
                ELSE [requests[s] EXCEPT !.assigned = v.assigned]]
    /\ UNCHANGED <<uptime, built, derivations, filePath, endpoint, middlewareMap, middlewarePerMethod,
                   handlers, schemas, thrown, routeFiles, pending, routes, logged, boot, bunRoutes>>

\* The validation middleware of the compiled handler, one continuation at a
\* time: it is called and runs to its first await, or it is resumed after an
\* await and runs to the next or to its return, which the loop of the
\* compiled handler goes on from. The continuations of other requests run in
\* between.
RunValidation(r) ==
    LET q == requests[r] IN
    /\ q.state = "compiled"
    /\ q.idx <= Len(Compiled(q).middlewareSequence)
    /\ LET middleware == Compiled(q).middlewareSequence[q.idx]
           v == validateSchema(middleware.id, schemas, q)
       IN /\ middleware.kind = "validate"
          /\ requests' = [requests EXCEPT ![r] = AfterValidation(q, middleware.id, v)]
    /\ UNCHANGED <<uptime, built, derivations, filePath, endpoint, middlewareMap, middlewarePerMethod, handlers, schemas, thrown,
                   routeFiles, pending, routes, logged, boot, bunRoutes>>

\* HandlerResult without the instanceof test: Response.json(handlerResult),
\* which serialises a Response as an empty object.
HandlerResultAlwaysJson(outcome) ==
    IF outcome = "response" THEN ResponseJson([empty |-> TRUE], 200)
    ELSE ResponseJson(HandlerValue, 200)

\* handlerResult instanceof Response ? handlerResult : Response.json(handlerResult)
\* for the two things a handler returns: a Response it built, or a plain value.
HandlerResult(outcome) ==
    IF outcome = "response" THEN HandlerResponse ELSE ResponseJson(HandlerValue, 200)

\* RunHandler calling the business handler again when it threw.
RunHandlerRetries(r, outcome) ==
    LET q == requests[r] IN
    /\ q.state = "compiled"
    /\ q.idx > Len(Compiled(q).middlewareSequence)
    /\ LET call == Call("handler", Compiled(q).handler, outcome, NoResponse, <<>>, q.assigned)
       IN requests' = [requests EXCEPT ![r] =
            IF outcome = "throw"
            THEN [q EXCEPT !.calls = Append(q.calls, call)]
            ELSE [q EXCEPT !.state = "done", !.calls = Append(q.calls, call),
                           !.response = HandlerResult(outcome)]]
    /\ UNCHANGED <<uptime, built, derivations, filePath, endpoint, middlewareMap, middlewarePerMethod, handlers,
                   schemas, thrown, routeFiles, pending, routes, logged, boot, bunRoutes>>

\* The compiled handler after its loop: the business handler and the
\* normalisation of what it returns.
RunHandler(r, outcome) ==
    LET q == requests[r] IN
    /\ q.state = "compiled"
    /\ q.idx > Len(Compiled(q).middlewareSequence)
    /\ LET call == Call("handler", Compiled(q).handler, outcome, NoResponse, <<>>, q.assigned)
       IN requests' = [requests EXCEPT ![r] =
            IF outcome = "throw"
            THEN [q EXCEPT !.state = "threw", !.calls = Append(q.calls, call)]
            ELSE [q EXCEPT !.state = "done", !.calls = Append(q.calls, call),
                           !.response = HandlerResult(outcome)]]
    /\ UNCHANGED <<uptime, built, derivations, filePath, endpoint, middlewareMap, middlewarePerMethod, handlers, schemas, thrown,
                   routeFiles, pending, routes, logged, boot, bunRoutes>>

\* ErrorHandler of a server without the error option: the runtime's own
\* error page, and the process goes down with the unhandled rejection.
ErrorHandlerAbsent(r) ==
    LET q == requests[r] IN
    /\ q.state = "threw"
    /\ requests' = [requests EXCEPT ![r] =
            [q EXCEPT !.state = "done", !.response = [status |-> 500, body |-> <<>>, id |-> ""]]]
    /\ boot' = "start"
    /\ UNCHANGED <<uptime, built, derivations, filePath, endpoint, middlewareMap, middlewarePerMethod, handlers,
                   schemas, thrown, routeFiles, pending, routes, logged, bunRoutes>>

\* ErrorHandler handing the request back to the router for another try.
ErrorHandlerRetries(r) ==
    LET q == requests[r] IN
    /\ q.state = "threw"
    /\ requests' = [requests EXCEPT ![r] =
            [q EXCEPT !.state = "received", !.route = <<>>, !.idx = 0, !.calls = <<>>,
                      !.assigned = <<>>, !.raw.params = <<>>]]
    /\ logged' = logged \cup {ErrorLogged}
    /\ UNCHANGED <<uptime, built, derivations, filePath, endpoint, middlewareMap, middlewarePerMethod,
                   handlers, schemas, thrown, routeFiles, pending, routes, boot, bunRoutes>>

\* The signals bootstrap registers gracefulShutdown for.
Signals == {"SIGINT", "SIGTERM"}

\* gracefulShutdown(signal), run on SIGINT or SIGTERM once the server is up:
\* it logs the signal, stops the server and exits the process. A request in
\* flight is dropped as it is: process.exit runs no continuation again.
GracefulShutdown(signal) ==
    /\ boot = "serving"
    /\ logged' = logged \cup {ShuttingDown(signal)}
    /\ boot' = "exited"
    /\ requests' = [r \in DOMAIN requests |->
            IF requests[r].state \in {"received", "compiled", "threw"}
            THEN [requests[r] EXCEPT !.state = "dropped"]
            ELSE requests[r]]
    /\ UNCHANGED <<uptime, built, derivations, filePath, endpoint, middlewareMap, middlewarePerMethod, handlers, schemas, thrown,
                   routeFiles, pending, routes, bunRoutes>>

\* The error option of Bun.serve, called with what a request's handling threw.
ErrorHandler(r) ==
    LET q == requests[r] IN
    /\ q.state = "threw"
    /\ requests' = [requests EXCEPT ![r] =
            [q EXCEPT !.state = "done", !.response = InternalServerError]]
    /\ logged' = logged \cup {ErrorLogged}
    /\ UNCHANGED <<uptime, built, derivations, filePath, endpoint, middlewareMap, middlewarePerMethod, handlers, schemas, thrown,
                   routeFiles, pending, routes, boot, bunRoutes>>

Next ==
    \/ \E c \in SchemaCalls : SchemaCall(c.method, c.result)
    \/ \E m \in OpMethods, h \in Listeners : OnCall(m, h)
    \/ SeedRoutes
    \/ \E f \in routeFiles : ImportResolved(f)
    \/ \E f \in routeFiles : ImportRejected(f)
    \/ \E f \in routeFiles : NoDefaultExport(f)
    \/ InstallCatchAll
    \/ Serve
    \/ \E r \in InFlight, input \in RequestInputs : Receive(r, input)
    \/ \E r \in InFlight : WrappedRouteHandler(r)
    \/ \E r \in InFlight : Fetch(r)
    \/ \E r \in InFlight, o \in MiddlewareOutcomes : RunUserMiddleware(r, o)
    \/ \E r \in InFlight : RunValidation(r)
    \/ \E r \in InFlight, o \in HandlerOutcomes : RunHandler(r, o)
    \/ \E r \in InFlight : ErrorHandler(r)
    \/ \E signal \in Signals : GracefulShutdown(signal)

Spec == Init /\ [][Next]_vars

\* The steps the runtime takes for a request it has received: each is a
\* continuation on the event loop, run once what it awaits has settled.
Handling(r) ==
    \/ WrappedRouteHandler(r)
    \/ Fetch(r)
    \/ \E o \in MiddlewareOutcomes : RunUserMiddleware(r, o)
    \/ RunValidation(r)
    \/ \E o \in HandlerOutcomes : RunHandler(r, o)
    \/ ErrorHandler(r)

\* One route module, routes/users/_id.ts, built with constructor middleware
\* for get and post, which may define a schema set for either method and a
\* handler for each, and which loads.
LiveSchemaCalls ==
    { [method |-> "get", result |-> QueryParamsSchemas],
      [method |-> "post", result |-> BodyHeadersSchemas] }

InitLive ==
    /\ filePath = <<>>
    /\ endpoint = <<>>
    /\ middlewareMap \in {m \in MiddlewareMaps : m.defined /\ "get" \in DOMAIN m.map}
    /\ middlewarePerMethod = Constructor(middlewareMap)
    /\ BuilderIdle
    /\ routeFiles = {UsersIdFile}
    /\ ServerDown

NextLive ==
    \/ \E c \in LiveSchemaCalls : SchemaCall(c.method, c.result)
    \/ \E m \in OpMethods : OnCall(m, "h1")
    \/ SeedRoutes
    \/ \E f \in routeFiles : ImportResolved(f)
    \/ InstallCatchAll
    \/ Serve
    \/ \E r \in InFlight, input \in RequestInputs : Receive(r, input)
    \/ \E r \in InFlight : Handling(r)
    \/ \E signal \in Signals : GracefulShutdown(signal)

\* A request has a continuation to run: Handling(r) is enabled exactly then
\* (a received request is routed or falls to fetch, a compiled handler has
\* its next middleware or its handler to call, a thrown error has the error
\* handler).
Ready(r) == requests[r].state \in {"received", "compiled", "threw"}

\* Weak fairness of Handling(r), written out with Ready(r) for its enabling
\* condition: the event loop runs every continuation that stays ready, every
\* awaited middleware and handler call being assumed to settle.
FairHandling(r) == []<>(~Ready(r)) \/ []<><<Handling(r)>>_vars

SpecLive ==
    /\ InitLive
    /\ [][NextLive]_vars
    /\ \A r \in InFlight : FairHandling(r) /\ WF_vars(ErrorHandler(r))

(***************************************************************************)
(* Two requests in flight at once: their continuations interleave at every *)
(* await of the dispatcher and of the compiled handlers                    *)
(***************************************************************************)
Concurrent == {1, 2}

\* POST /users/7 with two different valid bodies and an invalid one, on a
\* runtime Request or on an object that accepts the write of validated
\* data, and GET /users/7 with and without a query.
ConcurrentInputs ==
    { [method |-> "POST", pathname |-> UsersSevenPath,
       body |-> [ok |-> TRUE, value |-> [message |-> msg]], query |-> <<>>,
       headers |-> Headers, readonly |-> ro] : msg \in {"hi", "yo", ""}, ro \in RequestObjects }
    \cup
    { [method |-> "GET", pathname |-> UsersSevenPath, body |-> NoBody, query |-> q,
       headers |-> Headers, readonly |-> {}] : q \in Queries }

ConcurrentSchemaCalls ==
    { [method |-> "get", result |-> QueryParamsSchemas],
      [method |-> "post", result |-> BodySchemas] }

InitConcurrent ==
    /\ filePath = <<>>
    /\ endpoint = <<>>
    /\ middlewareMap \in {m \in MiddlewareMaps : m.defined /\ "*" \in DOMAIN m.map}
    /\ middlewarePerMethod = Constructor(middlewareMap)
    /\ BuilderIdle
    /\ routeFiles = {UsersIdFile}
    /\ pending = {}
    /\ routes = <<>>
    /\ built = <<>>
    /\ derivations = <<>>
    /\ logged = {}
    /\ boot = "start"
    /\ bunRoutes = <<>>
    /\ requests = [r \in Concurrent |-> IdleRequest]
    /\ uptime = 0

NextConcurrent ==
    \/ \E c \in ConcurrentSchemaCalls : SchemaCall(c.method, c.result)
    \/ \E m \in OpMethods : OnCall(m, "h1")
    \/ SeedRoutes
    \/ \E f \in routeFiles : ImportResolved(f)
    \/ InstallCatchAll
    \/ Serve
    \/ \E r \in Concurrent, input \in ConcurrentInputs : Receive(r, input)
    \/ \E r \in Concurrent : WrappedRouteHandler(r)
    \/ \E r \in Concurrent, o \in MiddlewareOutcomes : RunUserMiddleware(r, o)
    \/ \E r \in Concurrent : RunValidation(r)
    \/ \E r \in Concurrent, o \in HandlerOutcomes : RunHandler(r, o)
    \/ \E r \in Concurrent : ErrorHandler(r)
    \/ \E signal \in Signals : GracefulShutdown(signal)

SpecConcurrent == InitConcurrent /\ [][NextConcurrent]_vars

(***************************************************************************)
(* Endpoint derivation on its own: getEndpoint applied to one file path    *)
(***************************************************************************)

\* The longest route file path tried, in segments below the routes root.
MaxDepth == 3

SegmentNames ==
    { <<"u", "s", "e", "r", "s">>,
      <<"_", "i", "d">>,
      <<"i", "n", "d", "e", "x">>,
      <<"p", "o", "s", "t", "s">>,
      <<"_", "s", "l", "u", "g">>,
      <<"c", "o", "m", "m", "e", "n", "t", "s">>,
      <<"r", "o", "o", "t">>,
      <<"I", "n", "d", "e", "x">>,
      <<"u", "s", "e", "r", "_", "p", "r", "o", "f", "i", "l", "e">>,
      <<"r", "e", "i", "n", "d", "e", "x">> }

Extensions == { <<".", "t", "s">>, <<".", "j", "s">> }

\* The paths of n segments below a directory: /seg1/.../segn
RECURSIVE Below(_)
Below(n) ==
    IF n = 0 THEN {<<>>}
    ELSE {<<"/">> \o seg \o rest : seg \in SegmentNames, rest \in Below(n - 1)}

\* What walkDirectory(routesDirectory) can yield: absolute paths of source files.
RouteFilePaths ==
    {routesDirectory \o rel \o ext :
        rel \in UNION {Below(n) : n \in 1..MaxDepth}, ext \in Extensions}

InitEndpoint ==
    /\ filePath \in RouteFilePaths
    /\ endpoint = <<>>
    /\ middlewareMap = [defined |-> FALSE, map |-> <<>>]
    /\ middlewarePerMethod = Constructor(middlewareMap)
    /\ BuilderIdle
    /\ routeFiles = {}
    /\ ServerDown

\* const endpoint = getEndpoint(filePath)
DeriveEndpoint ==
    /\ endpoint = <<>>
    /\ endpoint' = getEndpoint(filePath)
    /\ UNCHANGED <<uptime, built, derivations, filePath, middlewareMap, middlewarePerMethod, handlers, schemas, thrown, routeFiles,
                   pending, routes, logged, boot, bunRoutes, requests>>

NextEndpoint == DeriveEndpoint

SpecEndpoint == InitEndpoint /\ [][NextEndpoint]_vars

(***************************************************************************)
(* The health endpoint while the process clock runs: one discovered route  *)
(* file, which may be routes/health.ts, and requests to /health            *)
(***************************************************************************)

\* The longest the process is watched, in seconds of process.uptime().
MaxUptime == 2

\* A route file whose derived endpoint is /health.
HealthFile == routesDirectory \o <<"/", "h", "e", "a", "l", "t", "h", ".", "t", "s">>

\* The requests sent to /health.
HealthInputs ==
    { [method |-> m, pathname |-> HealthPath, body |-> NoBody, query |-> <<>>,
       headers |-> Headers, readonly |-> GetterOnly] : m \in {"GET", "POST"} }

InitHealth ==
    /\ filePath = <<>>
    /\ endpoint = <<>>
    /\ middlewareMap = [defined |-> FALSE, map |-> <<>>]
    /\ middlewarePerMethod = Constructor(middlewareMap)
    /\ BuilderIdle
    /\ routeFiles \in { {UsersIdFile}, {HealthFile} }
    /\ ServerDown

\* A second of the process's life goes by.
Tick ==
    /\ uptime < MaxUptime
    /\ uptime' = uptime + 1
    /\ UNCHANGED <<filePath, endpoint, middlewareMap, middlewarePerMethod, handlers, schemas,
                   thrown, routeFiles, pending, routes, built, derivations, logged, boot,
                   bunRoutes, requests>>

NextHealth ==
    \/ \E m \in OpMethods, h \in Listeners : OnCall(m, h)
    \/ SeedRoutes
    \/ \E f \in routeFiles : ImportResolved(f)
    \/ \E f \in routeFiles : ImportRejected(f)
    \/ \E f \in routeFiles : NoDefaultExport(f)
    \/ InstallCatchAll
    \/ Serve
    \/ \E r \in InFlight, input \in HealthInputs : Receive(r, input)
    \/ \E r \in InFlight : WrappedRouteHandler(r)
    \/ \E r \in InFlight, o \in HandlerOutcomes : RunHandler(r, o)
    \/ \E r \in InFlight : ErrorHandler(r)
    \/ \E signal \in Signals : GracefulShutdown(signal)
    \/ Tick

SpecHealth == InitHealth /\ [][NextHealth]_vars

(***************************************************************************)
(* Route table assembly on its own: several discovered route files, two of *)
(* which derive the same endpoint; the modules export the one builder,     *)
(* which they go on configuring                                            *)
(***************************************************************************)

UsersFile == routesDirectory \o <<"/", "u", "s", "e", "r", "s", ".", "t", "s">>

UsersIndexFile ==
    routesDirectory \o <<"/", "u", "s", "e", "r", "s", "/", "i", "n", "d", "e", "x", ".", "t", "s">>

\* What walkDirectory may find.
DiscoveredFiles == SUBSET {UsersFile, UsersIndexFile, UsersIdFile} \ {{}}

InitAssembly ==
    /\ filePath = <<>>
    /\ endpoint = <<>>
    /\ middlewareMap = [defined |-> FALSE, map |-> <<>>]
    /\ middlewarePerMethod = Constructor(middlewareMap)
    /\ BuilderIdle
    /\ routeFiles \in DiscoveredFiles
    /\ ServerDown

NextAssembly ==
    \/ \E m \in OpMethods, h \in Listeners : OnCall(m, h)
    \/ SeedRoutes
    \/ \E f \in routeFiles : ImportResolved(f)
    \/ \E f \in routeFiles : ImportRejected(f)
    \/ \E f \in routeFiles : NoDefaultExport(f)
    \/ InstallCatchAll
    \/ Serve

SpecAssembly == InitAssembly /\ [][NextAssembly]_vars

(***************************************************************************)
(* One builder built more than once: routes/users.ts and routes/users/_id.ts *)
(* export the same builder, which goes on being configured between the two  *)
(* calls of build()                                                         *)
(***************************************************************************)
InitSnapshot ==
    /\ filePath = <<>>
    /\ endpoint = <<>>
    /\ middlewareMap \in {m \in MiddlewareMaps : m.defined /\ "get" \in DOMAIN m.map}
    /\ middlewarePerMethod = Constructor(middlewareMap)
    /\ BuilderIdle
    /\ routeFiles = {UsersFile, UsersIdFile}
    /\ ServerDown

NextSnapshot ==
    \/ \E c \in SchemaCalls : SchemaCall(c.method, c.result)
    \/ \E m \in OpMethods, h \in Listeners : OnCall(m, h)
    \/ SeedRoutes
    \/ \E f \in routeFiles : ImportResolved(f)
    \/ InstallCatchAll
    \/ Serve

SpecSnapshot == InitSnapshot /\ [][NextSnapshot]_vars

(***************************************************************************)
(* Properties                                                              *)
(***************************************************************************)

\* The requests the dispatcher has routed or answered.
Dispatched(q) == q.state \in {"compiled", "threw", "done"}

\* The calls of a request that are calls of middleware or of a business handler.
PipelineCalls(q) == {i \in 1..Len(q.calls) : q.calls[i].fn \in {"user", "validate", "handler"}}

\* C1: a request dispatched to an endpoint whose entry is a method table with
\* no handler for the request's method is answered 405 with the body
\* {error: "Method Not Allowed"}, and no middleware and no handler of the
\* endpoint is invoked for it.
C1_MethodNotAllowed ==
    \A r \in InFlight :
        LET q == requests[r] IN
        ( /\ Dispatched(q)
          /\ q.route # <<>>
          /\ bunRoutes[q.route].kind = "table"
          /\ q.method \notin DOMAIN bunRoutes[q.route].table )
        => /\ q.state = "done"
           /\ q.response = [status |-> 405, body |-> [error |-> <<"Method Not Allowed">>], id |-> ""]
           /\ q.calls = <<>>

\* C1 happens: a DELETE answered 405 by a table that has handlers for other methods.
C1_Witness ==
    \E r \in InFlight :
        LET q == requests[r] IN
        /\ q.state = "done"
        /\ q.route # <<>>
        /\ bunRoutes[q.route].kind = "table"
        /\ DOMAIN bunRoutes[q.route].table = {"GET", "POST"}
        /\ q.method = "DELETE"
        /\ q.response.status = 405

\* C2 as stated: a request whose pathname is not a key of the route table is
\* answered by the catch-all (404, {error: "Not found"}) whatever its method,
\* and no route handler or middleware is invoked.
C2_NotAKeyGivesNotFound ==
    \A r \in InFlight :
        LET q == requests[r] IN
        (boot = "serving" /\ Dispatched(q) /\ q.pathname \notin DOMAIN routes)
        => /\ q.state = "done"
           /\ q.response = [status |-> 404, body |-> [error |-> <<"Not found">>], id |-> ""]
           /\ PipelineCalls(q) = {}

\* C2, amended: a request whose pathname matches no route of the table (it
\* is no static key, and no parameterised key matches it segment by segment)
\* is answered by the catch-all (404, {error: "Not found"}) whatever its
\* method, and nothing but the catch-all is invoked.
C2_UnmatchedGivesNotFound ==
    \A r \in InFlight :
        LET q == requests[r] IN
        ( /\ boot = "serving"
          /\ Dispatched(q)
          /\ \A k \in DOMAIN routes \ {Star} :
                k # q.pathname /\ ~(IsPattern(k) /\ MatchesPattern(k, q.pathname)) )
        => /\ q.state = "done"
           /\ q.response = [status |-> 404, body |-> [error |-> <<"Not found">>], id |-> ""]
           /\ Len(q.calls) = 1
           /\ q.calls[1].fn = "route"
           /\ q.calls[1].id = "notFound"

\* C2 happens: a POST to a pathname that matches nothing, while the table
\* holds the route module's method table, is answered 404.
C2_Witness ==
    \E r \in InFlight :
        LET q == requests[r] IN
        /\ q.state = "done"
        /\ q.pathname = NopePath
        /\ q.method = "POST"
        /\ \E k \in DOMAIN routes : routes[k].kind = "table" /\ "POST" \in DOMAIN routes[k].table
        /\ q.response.status = 404

\* The builder method whose compiled handler answers to an HTTP method.
LowerMethod(M) == CHOOSE m \in RouteMethod : toUpperCase(m) = M

\* The requests that entered a compiled method handler.
InCompiled(q) ==
    /\ Dispatched(q)
    /\ q.route # <<>>
    /\ bunRoutes[q.route].kind = "table"
    /\ q.method \in DOMAIN bunRoutes[q.route].table

\* C3: on(M, h2) after a successful on(M, h1) throws and leaves the builder as
\* it was; the listener registered for a method never changes afterwards, and
\* the compiled handler of M invokes that listener.
C3_DuplicateHandlerRejected ==
    /\ [][ /\ \A m \in OpMethods, h \in Listeners :
                (OnCall(m, h) /\ m \in DOMAIN handlers)
                => /\ thrown' = [error |-> "Handler already defined", method |-> toUpperCase(m)]
                   /\ handlers' = handlers
                   /\ schemas' = schemas
                   /\ middlewarePerMethod' = middlewarePerMethod
           /\ \A m \in DOMAIN handlers :
                m \in DOMAIN handlers' /\ handlers'[m] = handlers[m] ]_vars
    /\ [](\A r \in InFlight :
            LET q == requests[r] IN
            \A i \in 1..Len(q.calls) :
                q.calls[i].fn = "handler" => q.calls[i].id = handlers[LowerMethod(q.method)])

\* C3 happens: a second on call for a method has thrown.
C3_Witness ==
    /\ thrown.error = "Handler already defined"
    /\ thrown.method = "GET"
    /\ handlers = [get |-> "h1", post |-> "h2"]

\* C4: schema(M, ...) when a schema set is recorded for M throws and installs
\* nothing: the schema sets and the middleware sequences are as before.
C4_DuplicateSchemaRejected ==
    [][ \A c \in SchemaCalls :
            (SchemaCall(c.method, c.result) /\ c.method \in DOMAIN schemas)
            => /\ thrown' = [error |-> "Schemas already defined", method |-> toUpperCase(c.method)]
               /\ schemas' = schemas
               /\ middlewarePerMethod' = middlewarePerMethod
               /\ handlers' = handlers ]_vars

\* C4 happens: a second schema call for POST has thrown, one validation
\* middleware in the sequence.
C4_Witness ==
    /\ thrown.error = "Schemas already defined"
    /\ thrown.method = "POST"
    /\ schemas["post"] = BodySchemas
    /\ middlewarePerMethod["post"] = <<UserMiddleware("B"), ValidationMiddleware("post")>>

Continues(call) == call.result \in {"void", "true"}

\* C5: when the first middleware of a compiled handler continues and the
\* second returns false, the response is a 403, each of the two was invoked
\* once, and neither a later middleware nor the business handler is invoked.
C5_ForbiddenStopsTheChain ==
    \A r \in InFlight :
        LET q == requests[r] IN
        ( /\ InCompiled(q)
          /\ Len(q.calls) >= 2
          /\ Continues(q.calls[1])
          /\ q.calls[2].result = "false" )
        => /\ q.state = "done"
           /\ q.response = [status |-> 403, body |-> [empty |-> TRUE], id |-> ""]
           /\ Len(q.calls) = 2
           /\ q.calls[1].fn = "user" /\ q.calls[1].id = Compiled(q).middlewareSequence[1].id
           /\ q.calls[2].fn = "user" /\ q.calls[2].id = Compiled(q).middlewareSequence[2].id

\* C5 happens: [A, B, validation], A continued, B returned false, 403.
C5_Witness ==
    \E r \in InFlight :
        LET q == requests[r] IN
        /\ InCompiled(q)
        /\ q.state = "done"
        /\ Len(Compiled(q).middlewareSequence) = 3
        /\ Len(q.calls) = 2
        /\ q.calls[1].id = "A" /\ Continues(q.calls[1])
        /\ q.calls[2].id = "B" /\ q.calls[2].result = "false"
        /\ q.response.status = 403

\* C6: when a middleware returns a Response, nothing is invoked after it, and
\* the response sent is that Response, unmodified.
C6_MiddlewareResponseIsReturned ==
    \A r \in InFlight :
        LET q == requests[r] IN
        \A i \in 1..Len(q.calls) :
            (q.calls[i].fn \in {"user", "validate"} /\ q.calls[i].result = "response")
            => /\ i = Len(q.calls)
               /\ q.state = "done"
               /\ q.response = q.calls[i].returned
               /\ q.calls[i].fn = "user"
                    => q.response = [status |-> 401, body |-> [reason |-> "denied"], id |-> "mw"]

\* C6 happens: the first of three middleware returned its Response.
C6_Witness ==
    \E r \in InFlight :
        LET q == requests[r] IN
        /\ InCompiled(q)
        /\ q.state = "done"
        /\ Len(Compiled(q).middlewareSequence) = 3
        /\ Len(q.calls) = 1
        /\ q.calls[1].result = "response"
        /\ q.response.id = "mw"

\* The middleware the constructor was given for a method, in the given order.
ConfiguredFor(m) ==
    IF middlewareMap.defined /\ m \in DOMAIN middlewareMap.map
    THEN middlewareMap.map[m].v
    ELSE <<>>

\* The steps of the compiled handler of a method, as <<kind, name>> pairs.
ExpectedSteps(m) ==
    [i \in 1..Len(ConfiguredFor(m)) |-> <<"user", ConfiguredFor(m)[i].id>>]
    \o (IF m \in DOMAIN schemas THEN << <<"validate", m>> >> ELSE <<>>)
    \o << <<"handler", handlers[m]>> >>

\* C7: the calls made for a request handled by the compiled handler of M are
\* a prefix of: the middleware the constructor was given for M, in their
\* order, then the validation middleware of M if a schema was defined, then
\* the business handler; every call but the last one made has completed with
\* a continue result, and the next step to run is the one after the last call.
C7_StepsInOrder ==
    \A r \in InFlight :
        LET q == requests[r] IN
        InCompiled(q) =>
            LET E == ExpectedSteps(LowerMethod(q.method)) IN
            /\ Len(q.calls) <= Len(E)
            /\ \A i \in 1..Len(q.calls) :
                /\ <<q.calls[i].fn, q.calls[i].id>> = E[i]
                /\ i < Len(q.calls) => Continues(q.calls[i])
            /\ q.state = "compiled" =>
                /\ q.idx = Len(q.calls) + 1
                /\ q.calls # <<>> => Continues(q.calls[Len(q.calls)])

\* C7 happens: A, B, the validation middleware and the handler ran, in that order.
C7_Witness ==
    \E r \in InFlight :
        LET q == requests[r] IN
        /\ InCompiled(q)
        /\ q.state = "done"
        /\ Len(q.calls) = 4
        /\ q.calls[1].id = "A" /\ q.calls[2].id = "B"
        /\ q.calls[3].fn = "validate" /\ q.calls[3].result = "void"
        /\ q.calls[4].fn = "handler" /\ q.calls[4].result = "value"

\* The calls of the validation middleware made for a request.
ValidateCalls(q) == {i \in 1..Len(q.calls) : q.calls[i].fn = "validate"}

\* The calls of the business handler made for a request.
HandlerCalls(q) == {i \in 1..Len(q.calls) : q.calls[i].fn = "handler"}

\* C8: for a method whose schema set is a body schema, once the validation
\* middleware has run on a request with a JSON body: a body that satisfies
\* the schema passes, and the business handler is called with the body field
\* equal to the validated value; a body that violates it is answered 400 with
\* the error "Body validation failed" and the issues, and the business handler
\* is not invoked.
C8_BodyValidation ==
    \A r \in InFlight :
        LET q == requests[r]
            m == LowerMethod(q.method)
        IN ( /\ InCompiled(q)
             /\ m \in DOMAIN schemas
             /\ DOMAIN schemas[m] = {"body"}
             /\ q.raw.body.ok
             /\ ValidateCalls(q) # {} )
           => IF Issues(schemas[m]["body"], q.raw.body.value) = {}
              THEN /\ \A i \in ValidateCalls(q) : q.calls[i].result = "void"
                   /\ \A i \in HandlerCalls(q) :
                        /\ "body" \in DOMAIN q.calls[i].observed
                        /\ q.calls[i].observed["body"] = [message |-> q.raw.body.value["message"]]
                   /\ q.state = "done" => HandlerCalls(q) # {}
              ELSE /\ q.state = "done"
                   /\ q.response = [status |-> 400,
                                    body |-> [error |-> <<"Body", " validation failed">>,
                                              issues |-> {"message"}],
                                    id |-> ""]
                   /\ HandlerCalls(q) = {}

\* C9: when the middleware of a compiled handler all continued and the
\* business handler returned, the response is the handler's own Response,
\* status included, if it returned one, and otherwise a JSON response of the
\* value it returned, with status 200.
C9_HandlerResultNormalised ==
    \A r \in InFlight :
        LET q == requests[r] IN
        ( /\ InCompiled(q)
          /\ HandlerCalls(q) # {}
          /\ q.calls[Len(q.calls)].result # "throw" )
        => /\ q.state = "done"
           /\ q.calls[Len(q.calls)].result = "response"
                => q.response = [status |-> 201, body |-> [created |-> "yes"], id |-> "handler"]
           /\ q.calls[Len(q.calls)].result = "value"
                => q.response = [status |-> 200, body |-> [received |-> "hi"], id |-> ""]

\* C9 happens: after two middleware continued, the handler's 201 was sent.
C9_Witness ==
    \E r \in InFlight :
        LET q == requests[r] IN
        /\ InCompiled(q)
        /\ q.state = "done"
        /\ Len(q.calls) = 3
        /\ q.calls[3].fn = "handler"
        /\ q.calls[3].result = "response"
        /\ q.response.status = 201

\* The file path below the routes root, without its extension.
Relative == SubSeq(filePath, Len(routesDirectory) + 1, Len(filePath) - 3)

\* The segments of the file path below the routes root.
Segments == Tail(Split(Relative))

\* _name as :name, any other segment as it is.
AsParameter(segment) ==
    IF segment # <<>> /\ segment[1] = "_" THEN <<":">> \o Tail(segment) ELSE segment

\* /seg1/.../segn
RECURSIVE Join(_)
Join(segments) ==
    IF segments = <<>> THEN <<>>
    ELSE <<"/">> \o Head(segments) \o Join(Tail(segments))

\* The last segment of the file path.
LastSegment == Segments[Len(Segments)]

\* The last segment is index or root, whatever the case.
IsIndexOrRoot(segment) ==
    LowerStr(segment) \in { <<"i", "n", "d", "e", "x">>, <<"r", "o", "o", "t">> }

\* C10: the endpoint derived from a route file path is the path below the
\* routes root without its .ts/.js extension, each segment _name turned into
\* :name and every other segment as it is, a last segment index or root left
\* out; users/_id.ts gives /users/:id, index.ts gives / and
\* posts/_slug/comments.ts gives /posts/:slug/comments.
C10_EndpointDerivation ==
    endpoint # <<>> =>
        /\ endpoint =
              IF ~IsIndexOrRoot(LastSegment)
              THEN Join([i \in 1..Len(Segments) |-> AsParameter(Segments[i])])
              ELSE IF Len(Segments) = 1 THEN <<"/">>
              ELSE Join([i \in 1..(Len(Segments) - 1) |-> AsParameter(Segments[i])])
        /\ Relative = <<"/", "u", "s", "e", "r", "s", "/", "_", "i", "d">>
            => endpoint = <<"/", "u", "s", "e", "r", "s", "/", ":", "i", "d">>
        /\ Relative = <<"/", "i", "n", "d", "e", "x">> => endpoint = <<"/">>
        /\ Relative = <<"/", "p", "o", "s", "t", "s", "/", "_", "s", "l", "u", "g",
                        "/", "c", "o", "m", "m", "e", "n", "t", "s">>
            => endpoint = <<"/", "p", "o", "s", "t", "s", "/", ":", "s", "l", "u", "g",
                            "/", "c", "o", "m", "m", "e", "n", "t", "s">>

\* The segments of the derived endpoint.
EndpointSegments == Tail(Split(endpoint))

\* The file paths whose last segment ends with index or root, whatever the case.
EndsWithIndexOrRoot ==
    \/ EndsWithCI(Relative, <<"i", "n", "d", "e", "x">>)
    \/ EndsWithCI(Relative, <<"r", "o", "o", "t">>)

\* C11: the derived endpoint has, segment by segment, :name where the file
\* path has _name, and the segment of the file path itself where that segment
\* does not start with an underscore, an inner underscore included
\* (user_profile stays user_profile).
C11_OnlyLeadingUnderscores ==
    (endpoint # <<>> /\ ~EndsWithIndexOrRoot) =>
        /\ Len(EndpointSegments) = Len(Segments)
        /\ \A i \in 1..Len(Segments) :
            IF Segments[i][1] = "_"
            THEN EndpointSegments[i] = AsParameter(Segments[i])
            ELSE EndpointSegments[i] = Segments[i]

\* C12: the derived endpoint lacks the last segment of the file path exactly
\* when that whole segment is index or root, whatever the case (a lone index
\* file gives /); any other last segment, one that ends with those letters
\* included (reindex), is the last segment of the endpoint, whole.
C12_WholeIndexOrRootRemoved ==
    endpoint # <<>> =>
        IF IsIndexOrRoot(LastSegment)
        THEN endpoint = IF Len(Segments) = 1 THEN <<"/">>
                        ELSE ReplaceAllChar(Join(SubSeq(Segments, 1, Len(Segments) - 1)), "_", ":")
        ELSE /\ Len(EndpointSegments) = Len(Segments)
             /\ EndpointSegments[Len(Segments)] = ReplaceAllChar(LastSegment, "_", ":")

\* C13: the endpoint derived from a file path under the routes root is not
\* empty, begins with a slash and has no second slash after it; the index
\* file of the routes root gives /.
C13_OneLeadingSlash ==
    /\ getEndpoint(filePath) # <<>>
    /\ endpoint # <<>> =>
        /\ endpoint = getEndpoint(filePath)
        /\ endpoint[1] = "/"
        /\ Len(endpoint) >= 2 => endpoint[2] # "/"
        /\ Relative = <<"/", "i", "n", "d", "e", "x">> => endpoint = <<"/">>

\* C13 happens: the index file of the routes root has been derived.
C13_Witness ==
    /\ filePath = routesDirectory \o <<"/", "i", "n", "d", "e", "x", ".", "j", "s">>
    /\ endpoint = <<"/">>

\* The tables build() returned, as installed in the route table.
BuiltTables == {routes[k].table : k \in {j \in DOMAIN routes : routes[j].kind = "table"}}

\* C14: the keys of the table build() returns are exactly the uppercase
\* names of the methods a handler was registered for, each mapped to the
\* compiled handler of that method; the table is empty when no handler was
\* registered, a method that has only middleware or only a schema has no
\* key, and the call raises no error.
C14_BuildKeys ==
    \A table \in BuiltTables :
        /\ DOMAIN table = {toUpperCase(m) : m \in DOMAIN handlers}
        /\ \A m \in DOMAIN handlers :
            table[toUpperCase(m)] =
                [middlewareSequence |-> middlewarePerMethod[m], handler |-> handlers[m]]
        /\ thrown = NoError

\* C14 happens: build() returned an empty table for a builder that has
\* middleware and a schema for post, and no handler.
C14_Witness ==
    /\ BuiltTables = {<<>>}
    /\ "post" \in DOMAIN schemas
    /\ middlewarePerMethod["post"] = <<UserMiddleware("B"), ValidationMiddleware("post")>>

\* The middleware the constructor was given under the key '*'.
Wildcard ==
    IF middlewareMap.defined /\ "*" \in DOMAIN middlewareMap.map
    THEN middlewareMap.map["*"].v
    ELSE <<>>

\* C15: the compiled handler of every method that has a handler runs the
\* middleware given to the constructor under '*' on each request, before the
\* middleware of the method and before the business handler: the calls made
\* for a request begin with the wildcard middleware.
C15_WildcardRunsFirst ==
    \A r \in InFlight :
        LET q == requests[r] IN
        InCompiled(q) =>
            \A i \in 1..Len(Wildcard) :
                i <= Len(q.calls) =>
                    /\ q.calls[i].fn = "user"
                    /\ q.calls[i].id = Wildcard[i].id

\* A request to /health has been answered.
HealthAnswered(q) == q.state = "done" /\ q.pathname = HealthPath

\* C16: every request to /health is answered with the status field "ok",
\* whatever route files were discovered, and with the process uptime of the
\* moment as `up`; the uptime never decreases, so neither does the `up` of
\* successive responses.
C16_HealthAlwaysOk ==
    [][ /\ uptime' >= uptime
        /\ \A r \in InFlight :
            (HealthAnswered(requests[r])' /\ ~HealthAnswered(requests[r]))
            => /\ requests'[r].response.status = 200
               /\ DOMAIN requests'[r].response.body = {"status", "up"}
               /\ requests'[r].response.body["status"] = "ok"
               /\ requests'[r].response.body["up"] = uptime' ]_vars

\* The parts a schema set has a schema for, in the order body, query,
\* headers, path parameters.
PartsInOrder(schemaSet) ==
    SelectSeq(<<"body", "query", "headers", "params">>, LAMBDA k : k \in DOMAIN schemaSet)

\* The name a validation failure gives a part.
PartName(k) ==
    CASE k = "body" -> "Body"
      [] k = "query" -> "Query"
      [] k = "headers" -> "Headers"
      [] k = "params" -> "URL Parameters"

\* What the runtime yields for a part of a request.
RawPart(q, k) == IF k = "body" THEN q.raw.body.value ELSE q.raw[k]

\* The validation of a part fails: its data was read and has issues.
FailsValidation(schemaSet, q, k) ==
    /\ ~(k = "body" /\ ~q.raw.body.ok)
    /\ ~schemaSet[k].throws
    /\ Issues(schemaSet[k], RawPart(q, k)) # {}

\* The validation middleware goes no further than part k: reading or
\* validating it throws, its validation fails, or its write throws.
StopsAt(schemaSet, q, k) ==
    \/ k = "body" /\ ~q.raw.body.ok
    \/ schemaSet[k].throws
    \/ Issues(schemaSet[k], RawPart(q, k)) # {}
    \/ k \in q.raw.readonly

\* C17: the validation middleware reads the parts that have a schema in the
\* order body, query, headers, path parameters, up to the first part it
\* stops at and no further; when that part is one whose validation fails,
\* the response is a 400 naming the part, with its issues, and the business
\* handler is not invoked.
C17_FirstFailureStops ==
    \A r \in InFlight :
        LET q == requests[r] IN
        \A i \in ValidateCalls(q) :
            LET S     == schemas[LowerMethod(q.method)]
                parts == PartsInOrder(S)
                read  == q.calls[i].extracted
                last  == read[Len(read)]
            IN /\ read # <<>>
               /\ Len(read) <= Len(parts)
               /\ read = SubSeq(parts, 1, Len(read))
               /\ \A j \in 1..(Len(read) - 1) : ~StopsAt(S, q, read[j])
               /\ Len(read) < Len(parts) => StopsAt(S, q, last)
               /\ FailsValidation(S, q, last) =>
                    /\ q.state = "done"
                    /\ q.response = [status |-> 400,
                                     body |-> [error |-> <<PartName(last), " validation failed">>,
                                               issues |-> Issues(S[last], RawPart(q, last))],
                                     id |-> ""]
                    /\ i = Len(q.calls)

\* C17 happens: the body passed, the headers failed, the answer names the headers.
C17_Witness ==
    \E r \in InFlight :
        LET q == requests[r] IN
        /\ q.state = "done"
        /\ Len(q.calls) >= 1
        /\ q.calls[Len(q.calls)].fn = "validate"
        /\ q.calls[Len(q.calls)].extracted = <<"body", "headers">>
        /\ q.response = [status |-> 400,
                         body |-> [error |-> <<"Headers", " validation failed">>,
                                   issues |-> {"authorization"}],
                         id |-> ""]

\* C18: when the method has a body schema and the request's body is not
\* parseable JSON, the validation middleware answers 400 with the body
\* {error: "Invalid JSON in request body"}, which has no issues and is not
\* the "Body validation failed" answer; nothing else is read and the
\* business handler is not invoked.
C18_InvalidJsonIsItsOwnAnswer ==
    \A r \in InFlight :
        LET q == requests[r] IN
        \A i \in ValidateCalls(q) :
            ("body" \in DOMAIN schemas[LowerMethod(q.method)] /\ ~q.raw.body.ok)
            => /\ q.state = "done"
               /\ q.response = [status |-> 400,
                                body |-> [error |-> <<"Invalid JSON in request body">>],
                                id |-> ""]
               /\ q.response.body.error # <<"Body", " validation failed">>
               /\ q.calls[i].extracted = <<"body">>
               /\ i = Len(q.calls)

\* C18 happens: a POST without a JSON body answered 400 by the validation
\* middleware of a body schema.
C18_Witness ==
    \E r \in InFlight :
        LET q == requests[r] IN
        /\ q.state = "done"
        /\ q.method = "POST"
        /\ ~q.raw.body.ok
        /\ ValidateCalls(q) # {}
        /\ schemas["post"] = BodySchemas
        /\ q.response.status = 400

\* Reading, validating or writing part k throws something other than the
\* malformed-body error.
ThrowsAt(schemaSet, q, k) ==
    /\ ~(k = "body" /\ ~q.raw.body.ok)
    /\ \/ schemaSet[k].throws
       \/ Issues(schemaSet[k], RawPart(q, k)) = {} /\ k \in q.raw.readonly

\* C19: the validation middleware never throws: it returns nothing or a
\* Response. When something other than the malformed-body error is thrown
\* while it handles a part, its answer is 500 {error: "Schema validation
\* error"}, and the business handler is not invoked.
C19_ValidationErrorsAreCaught ==
    \A r \in InFlight :
        LET q == requests[r] IN
        \A i \in ValidateCalls(q) :
            LET S    == schemas[LowerMethod(q.method)]
                read == q.calls[i].extracted
            IN /\ q.calls[i].result \in {"void", "response"}
               /\ q.state = "threw" => i < Len(q.calls)
               /\ (read # <<>> /\ ThrowsAt(S, q, read[Len(read)]))
                    => /\ q.state = "done"
                       /\ q.response = [status |-> 500,
                                        body |-> [error |-> <<"Schema validation error">>],
                                        id |-> ""]
                       /\ i = Len(q.calls)

\* C19 happens: the body passed, validating the headers threw, the answer is the 500.
C19_Witness ==
    \E r \in InFlight :
        LET q == requests[r] IN
        /\ q.state = "done"
        /\ q.method = "POST"
        /\ ValidateCalls(q) # {}
        /\ schemas["post"] = BodyHeadersSchemas
        /\ q.calls[Len(q.calls)].extracted = <<"body", "headers">>
        /\ q.response.status = 500

\* buildRoutes has returned.
Assembled == boot \in {"assembled", "serving"}

\* The route files whose import or build failed.
FailedFiles == routeFiles \ (pending \cup DOMAIN built)

\* C20: once assembly has completed with some files failing: every import
\* has settled; each failing file has its failure logged and installed no
\* entry (an entry at its endpoint is that of a file that loaded); every file
\* that loaded has the table its builder built installed at its derived
\* endpoint; the health endpoints and the catch-all are present.
C20_FailuresAreIsolated ==
    (Assembled /\ FailedFiles # {}) =>
        /\ pending = {}
        /\ \A f \in FailedFiles :
            /\ FailedToLoad(f) \in logged
            /\ getEndpoint(f) \in DOMAIN routes
                => \E g \in DOMAIN built : getEndpoint(g) = getEndpoint(f)
        /\ \A f \in DOMAIN built :
            /\ getEndpoint(f) \in DOMAIN routes
            /\ routes[getEndpoint(f)] = TableEntry(built[f])
        /\ {HealthPath, ReadyPath, Star} \subseteq DOMAIN routes
        /\ routes[HealthPath] = FunctionEntry("health")
        /\ routes[ReadyPath] = FunctionEntry("ready")
        /\ routes[Star] = FunctionEntry("notFound")

\* C21: when the module of a route file has loaded and another discovered
\* file that loaded before it derives the same endpoint, the collision is
\* logged as an error and the entry installed earlier stays as it is.
C21_CollisionSurfaced ==
    [][ \A f \in routeFiles :
            ( /\ ImportResolved(f)
              /\ \E g \in DOMAIN built : g # f /\ getEndpoint(g) = getEndpoint(f) )
            => /\ routes'[getEndpoint(f)] = routes[getEndpoint(f)]
               /\ \E entry \in logged' \ logged : entry.level = "error" ]_vars

\* The discovered files whose module loaded and whose table was installed,
\* or whose failure was logged.
Processed ==
    {f \in routeFiles :
        \/ f \in DOMAIN built /\ getEndpoint(f) \in DOMAIN routes
        \/ FailedToLoad(f) \in logged}

\* C22: no request is handed over, and none is being handled, unless the
\* health endpoints are in the table, every discovered file has been
\* processed and the catch-all is installed; the table served is that table.
C22_AssemblyBeforeServing ==
    \A r \in InFlight :
        requests[r].state # "idle" =>
            /\ pending = {}
            /\ Processed = routeFiles
            /\ {HealthPath, ReadyPath, Star} \subseteq DOMAIN routes
            /\ bunRoutes = [k \in DOMAIN routes \ {Star} |-> routes[k]]

\* C22 happens: a request was answered by the catch-all after the one
\* discovered file had failed to load.
C22_Witness ==
    \E r \in InFlight :
        /\ requests[r].state = "done"
        /\ requests[r].response.status = 404
        /\ routeFiles # {}
        /\ built = <<>>

\* C23: once buildRoutes has returned, no step writes the route table: its
\* keys and entries stay what they were, and so do the table handed to the
\* server and the builder fields the compiled handlers read, whatever
\* requests are dispatched and however they end.
C23_TableFrozen ==
    [][ Assembled =>
            /\ routes' = routes
            /\ boot = "serving" => bunRoutes' = bunRoutes
            /\ <<handlers', schemas', middlewarePerMethod'>> = <<handlers, schemas, middlewarePerMethod>>
      ]_vars

\* C23 happens: a request that matched nothing was answered 404, the table
\* holding the three single callables and the module's method table.
C23_Witness ==
    \E r \in InFlight :
        /\ requests[r].state = "done"
        /\ requests[r].response.status = 404
        /\ Cardinality(DOMAIN routes) = 4
        /\ NopePath \notin DOMAIN routes

\* The table a set of load outcomes determines when the order in which the
\* loads completed plays no part: the three single callables, and under the
\* endpoint of each loaded file the method table that file's builder built.
OrderFree(e) ==
    {TableEntry(built[f]) : f \in {g \in DOMAIN built : getEndpoint(g) = e}}

\* C24: the assembled table is the same for every order in which the loads
\* complete: its keys are the seeded ones and the endpoints of the files that
\* loaded, and the entry under an endpoint is the one entry the loaded files
\* of that endpoint determine, whichever of them completed last.
C24_OrderIndependent ==
    Assembled =>
        /\ DOMAIN routes = {HealthPath, ReadyPath, Star} \cup {getEndpoint(f) : f \in DOMAIN built}
        /\ \A e \in DOMAIN routes :
            OrderFree(e) # {} => OrderFree(e) = {routes[e]}

RouteCalls(q) == {i \in 1..Len(q.calls) : q.calls[i].fn = "route"}

UserCalls(q, id) == {i \in 1..Len(q.calls) : q.calls[i].fn = "user" /\ q.calls[i].id = id}

\* C25: a request has a response exactly when its handling has ended, and
\* that response is never replaced; its route is resolved once; no step
\* drops or rewrites a call already made; and of the calls made for it, at
\* most one is to a single callable, at most one to the validation
\* middleware, at most one to the business handler and at most one to each
\* user middleware.
C25_OneResponseNoRetry ==
    [][ \A r \in InFlight :
            LET q == requests[r]
                n == requests'[r]
            IN  /\ (q.state = "done") = (q.response # NoResponse)
                /\ Cardinality(RouteCalls(q)) <= 1
                /\ Cardinality(ValidateCalls(q)) <= 1
                /\ Cardinality(HandlerCalls(q)) <= 1
                /\ \A id \in {"A", "B", LoggingId} : Cardinality(UserCalls(q, id)) <= 1
                /\ RouteCalls(q) # {} => PipelineCalls(q) = {}
                /\ n.state # "received" =>
                    /\ q.state = "done" => n = q
                    /\ q.route # <<>> => n.route = q.route
                    /\ Len(n.calls) <= Len(q.calls) + 1
                    /\ SubSeq(n.calls, 1, Len(q.calls)) = q.calls
      ]_vars

\* C25 happens: a request went through two user middlewares, the
\* validation middleware and the business handler, and has its response.
C25_Witness ==
    \E r \in InFlight :
        LET q == requests[r] IN
        /\ q.state = "done"
        /\ Len(q.calls) = 4
        /\ q.calls[4].fn = "handler"
        /\ q.response = HandlerResult(q.calls[4].result)

LastCall(q) == q.calls[Len(q.calls)]

Threw(q) ==
    /\ q.calls # <<>>
    /\ LastCall(q).fn \in {"user", "handler"}
    /\ LastCall(q).result = "throw"

\* A shutdown signal has been received and logged.
ShutDown == \E signal \in Signals : ShuttingDown(signal) \in logged

\* C26: a request whose user middleware or business handler threw is with
\* the server's error handler or has been answered by it with 500
\* {error: "Internal Server Error"}; nothing ran for it after the throw; and
\* the server goes on serving the table it was started with, so that the
\* next request can be received. The throw ends nothing: the process exits
\* on a shutdown signal only, which drops the request if it is still with
\* the error handler.
C26_ThrowGivesInternalServerError ==
    \A r \in InFlight :
        LET q == requests[r] IN
        /\ boot = "exited" <=> ShutDown
        /\ q.state = "dropped" => ShutDown
        /\ Threw(q) =>
            /\ q.state \in {"threw", "done", "dropped"}
            /\ q.state = "done" => q.response = InternalServerError
        /\ q.state = "threw" => Threw(q) /\ q.response = NoResponse
        /\ ((Threw(q) \/ ErrorLogged \in logged) /\ ~ShutDown) =>
            /\ boot = "serving"
            /\ bunRoutes = [k \in DOMAIN routes \ {Star} |-> routes[k]]
            /\ q.state = "done" => ENABLED (\E input \in RequestInputs : Receive(r, input))

\* C26 happens: the error handler has answered a request, and a later
\* request went through its pipeline to the business handler's response.
C26_Witness ==
    \E r \in InFlight :
        LET q == requests[r] IN
        /\ ErrorLogged \in logged
        /\ q.state = "done"
        /\ q.calls # <<>>
        /\ LastCall(q).fn = "handler"
        /\ LastCall(q).result = "value"
        /\ q.response = ResponseJson(HandlerValue, 200)

WellFormed(response) == response.status \in 200..599

\* C27 as stated: no invocation of a compiled method handler ends with an
\* exception: it is never left by a throw, and a request that went through
\* one has its response from it.
C27_NothingEscapes ==
    \A r \in InFlight :
        LET q == requests[r] IN
        InCompiled(q) =>
            /\ q.state # "threw"
            /\ q.state = "done" => ~Threw(q) /\ WellFormed(q.response)

\* C27, amended: an invocation of a compiled method handler is left by an
\* exception only when a user middleware or the business handler threw, and
\* that was the last thing it called; what the validation middleware raises
\* never leaves it. Every other invocation that has ended returned a
\* well-formed response.
C27_OnlyUserCodeEscapes ==
    \A r \in InFlight :
        LET q == requests[r] IN
        InCompiled(q) =>
            /\ q.state = "threw" => Threw(q)
            /\ \A i \in 1..Len(q.calls) :
                q.calls[i].result = "throw" =>
                    i = Len(q.calls) /\ q.calls[i].fn \in {"user", "handler"}
            /\ (q.state # "compiled" /\ ~Threw(q)) =>
                /\ q.state = "done"
                /\ WellFormed(q.response)

\* C27 happens: an exception of user code has been through the error
\* handler, and a request whose validation raised an exception was answered
\* by the compiled handler itself.
C27_Witness ==
    \E r \in InFlight :
        LET q == requests[r] IN
        /\ ErrorLogged \in logged
        /\ InCompiled(q)
        /\ q.state = "done"
        /\ q.calls # <<>>
        /\ LastCall(q).fn = "validate"
        /\ LastCall(q).returned.status = 500
        /\ q.response = LastCall(q).returned

\* The entry a dispatched request resolved to: that of its route, or the
\* catch-all when no route matched.
Resolved(q) == IF q.route # <<>> THEN bunRoutes[q.route] ELSE routes[Star]

\* C28: a request resolved to a single callable is answered by one call of
\* that callable, whatever its method: its response is what the callable
\* returned, and never 405.
C28_SingleCallableForEveryMethod ==
    \A r \in InFlight :
        LET q == requests[r] IN
        (Dispatched(q) /\ Resolved(q).kind = "function") =>
            /\ q.state = "done"
            /\ q.calls = << Call("route", Resolved(q).fn, "response",
                                 CallFunction(Resolved(q).fn), <<>>, <<>>) >>
            /\ q.response = CallFunction(Resolved(q).fn)
            /\ q.response.status # 405

\* C28 happens: DELETE /health was answered by the health callable.
C28_Witness ==
    \E r \in InFlight :
        LET q == requests[r] IN
        /\ q.state = "done"
        /\ q.method = "DELETE"
        /\ q.route = HealthPath
        /\ bunRoutes[q.route] = FunctionEntry("health")
        /\ q.response.status = 200

\* How many times getEndpoint was called with argument f during assembly.
Calls(f) == IF f \in DOMAIN derivations THEN derivations[f] ELSE 0

\* C29 as stated: when assembly has returned, getEndpoint has been called
\* exactly once for each discovered file, with the file's path.
C29_DerivedOncePerFile ==
    Assembled =>
        /\ DOMAIN derivations \subseteq routeFiles
        /\ \A f \in routeFiles : Calls(f) = 1

\* C29, amended: getEndpoint is called with raw file paths only, at most
\* once for each discovered file, and only in the step in which the file's
\* callback ends; exactly once for a file whose table was built; and a file
\* whose callback has ended without the call has its failure logged and
\* nothing in the table.
C29_DerivedAtMostOnce ==
    [][ /\ DOMAIN derivations' \subseteq routeFiles
        /\ \A f \in routeFiles :
            /\ Calls(f)' <= 1
            /\ Calls(f)' # Calls(f) => f \in pending /\ f \notin pending'
            /\ f \in DOMAIN built' => Calls(f)' = 1
            /\ (f \notin pending' /\ boot' # "start" /\ Calls(f)' = 0) =>
                /\ f \notin DOMAIN built'
                /\ FailedToLoad(f) \in logged'
      ]_vars

\* C29 happens: assembly has returned with one file loaded, one whose
\* import was rejected and one that was imported but could not be built.
C29_Witness ==
    /\ Assembled
    /\ \E f \in routeFiles : f \in DOMAIN built /\ Calls(f) = 1
    /\ \E f \in routeFiles : f \notin DOMAIN built /\ Calls(f) = 1
    /\ \E f \in routeFiles : Calls(f) = 0

\* Every part the schema set has a schema for validates: it can be read,
\* the schema does not throw and finds no issue.
AllPartsValid(schemaSet, q) ==
    \A k \in DOMAIN schemaSet :
        /\ ~(k = "body" /\ ~q.raw.body.ok)
        /\ ~schemaSet[k].throws
        /\ Issues(schemaSet[k], RawPart(q, k)) = {}

\* C30: when the validation middleware has run on a request all of whose
\* schemaed parts validate, it let the request through having read the
\* schemaed parts only, and the business handler is called with exactly
\* those fields replaced, each by the validator's output for it.
C30_ValidatedPartsReachHandler ==
    \A r \in InFlight :
        LET q == requests[r]
            m == LowerMethod(q.method)
        IN ( /\ InCompiled(q)
             /\ m \in DOMAIN schemas
             /\ ValidateCalls(q) # {}
             /\ AllPartsValid(schemas[m], q) )
           => /\ \A i \in ValidateCalls(q) :
                    /\ q.calls[i].result = "void"
                    /\ q.calls[i].extracted = PartsInOrder(schemas[m])
              /\ DOMAIN q.assigned = DOMAIN schemas[m]
              /\ q.state = "done" => HandlerCalls(q) # {}
              /\ \A i \in HandlerCalls(q) :
                    /\ DOMAIN q.calls[i].observed = DOMAIN schemas[m]
                    /\ \A k \in DOMAIN schemas[m] :
                        q.calls[i].observed[k] = safeParse(schemas[m][k], RawPart(q, k)).data

\* The terminal states of a request: it is done, with the response of the
\* pipeline (the handler's, or the one a middleware stopped it with), of the
\* catch-all (404), of the dispatcher (405), of the validation middleware
\* (400 or its 500) or of the server's error handler (500).
Terminal(q) ==
    /\ q.state = "done"
    /\ q.response # NoResponse
    /\ \/ q.calls # <<>> /\ LastCall(q).fn = "handler" /\ q.response = HandlerResult(LastCall(q).result)
       \/ q.calls # <<>> /\ LastCall(q).fn = "user" /\ q.response \in {Forbidden, MiddlewareResponse}
       \/ q.calls # <<>> /\ LastCall(q).fn = "route" /\ q.response = LastCall(q).returned
       \/ q.response.status \in {400, 405, 500}

\* C31 as stated: every request received is eventually in a terminal state,
\* and a request in a terminal state stays exactly as it is until the next
\* request is received.
C31_EveryRequestTerminates ==
    /\ \A r \in InFlight : (requests[r].state = "received") ~> Terminal(requests[r])
    /\ [][ \A r \in InFlight :
              Terminal(requests[r]) =>
                  \/ requests'[r] = requests[r]
                  \/ requests'[r].state = "received" ]_vars

\* A request the shutdown has dropped: the process has exited, the request
\* has no response and never gets one.
Dropped(q) == q.state = "dropped" /\ q.response = NoResponse /\ boot = "exited"

\* C31 amended: every request received is eventually in a terminal state,
\* unless SIGINT or SIGTERM is received while it is in flight, which drops it
\* without a response; a request in a terminal state stays exactly as it is
\* until the next request is received, and a dropped request stays dropped.
C31_TerminatesUnlessShutDown ==
    /\ \A r \in InFlight :
          (requests[r].state = "received") ~> (Terminal(requests[r]) \/ Dropped(requests[r]))
    /\ [][ \A r \in InFlight :
              /\ Terminal(requests[r]) =>
                  \/ requests'[r] = requests[r]
                  \/ requests'[r].state = "received"
              /\ requests[r].state = "dropped" => requests'[r] = requests[r]
              /\ requests'[r].state = "dropped" => Dropped(requests[r])' ]_vars

\* C31 happens: a request whose handler threw ended with the 500 of the
\* error handler.
C31_Witness ==
    \E r \in InFlight :
        LET q == requests[r] IN
        /\ Terminal(q)
        /\ Threw(q)
        /\ LastCall(q).fn = "handler"
        /\ q.response.status = 500

\* The request q as it was received, before anything ran for it.
Fresh(q) ==
    [IdleRequest EXCEPT !.state = "received", !.method = q.method, !.pathname = q.pathname,
                        !.raw = [q.raw EXCEPT !.params = <<>>]]

\* A received request after the router, with nothing else in flight.
Routed(p) ==
    IF Matching(bunRoutes, p.pathname) # {}
    THEN LET key == CHOOSE k \in Matching(bunRoutes, p.pathname) : TRUE
         IN wrapRouteHandler(bunRoutes[key],
                             [p EXCEPT !.route = key, !.raw.params = Params(key, p.pathname)])
    ELSE [p EXCEPT !.state = "done",
                   !.calls = Append(p.calls, Call("route", routes[Star].fn, "response",
                                                  CallFunction(routes[Star].fn), <<>>, <<>>)),
                   !.response = CallFunction(routes[Star].fn)]

\* The validation middleware id run on p, with nothing else in flight, until
\* it returns.
RECURSIVE ToReturn(_, _)
ToReturn(id, p) ==
    LET v == validateSchema(id, schemas, p)
    IN IF v.finished THEN AfterValidation(p, id, v)
       ELSE ToReturn(id, AfterValidation(p, id, v))

\* The validation middleware id run on p, with nothing else in flight, until
\* it waits for the part numbered part.
RECURSIVE ToAwait(_, _, _)
ToAwait(id, p, part) ==
    LET v == validateSchema(id, schemas, p)
    IN IF p.part = part \/ v.finished THEN p
       ELSE ToAwait(id, AfterValidation(p, id, v), part)

\* The compiled handler run on p with nothing else in flight, its user
\* middleware and handler returning what they returned to q, for as many
\* calls as q has made from its i-th on.
RECURSIVE Steps(_, _, _)
Steps(p, q, i) ==
    IF p.state # "compiled" \/ i > Len(q.calls) THEN p
    ELSE LET sequence == Compiled(p).middlewareSequence
             outcome  == q.calls[i].result
         IN IF p.idx <= Len(sequence)
            THEN LET middleware == sequence[p.idx]
                 IN IF middleware.kind = "user"
                    THEN Steps(AfterMiddleware(p, Call("user", middleware.id, outcome,
                                                       IF outcome = "response"
                                                       THEN MiddlewareResponse ELSE NoResponse,
                                                       <<>>, p.assigned)), q, i + 1)
                    ELSE Steps(ToReturn(middleware.id, p), q, i + 1)
            ELSE LET call == Call("handler", Compiled(p).handler, outcome, NoResponse, <<>>,
                                  p.assigned)
                 IN IF outcome = "throw"
                    THEN [p EXCEPT !.state = "threw", !.calls = Append(p.calls, call)]
                    ELSE [p EXCEPT !.state = "done", !.calls = Append(p.calls, call),
                                   !.response = HandlerResult(outcome)]

\* p, which has made the calls q has, taken as far into its validation
\* middleware as q is.
AtAwait(p, q) ==
    IF p.state = "compiled" /\ q.part # 0
       /\ p.idx <= Len(Compiled(p).middlewareSequence)
       /\ Compiled(p).middlewareSequence[p.idx].kind = "validate"
    THEN ToAwait(Compiled(p).middlewareSequence[p.idx].id, p, q.part)
    ELSE p

\* The request q processed alone, as far as q has got; a request dropped by
\* a shutdown is compared with the one processed alone and dropped where it
\* was.
Alone(q) ==
    IF q.state = "received" THEN Fresh(q)
    ELSE IF q.state = "dropped" /\ q.route = <<>> THEN [Fresh(q) EXCEPT !.state = "dropped"]
    ELSE LET p == Steps(Routed(Fresh(q)), q, 1)
         IN IF q.state = "dropped" THEN [AtAwait(p, q) EXCEPT !.state = "dropped"]
            ELSE IF p.state = "threw" /\ q.state = "done"
            THEN [p EXCEPT !.state = "done", !.response = InternalServerError]
            ELSE AtAwait(p, q)

\* C32: with two requests in flight and their steps interleaved in every
\* way, each request is at every moment exactly what it would be had it been
\* processed alone with the same outcomes of its own middleware and handler
\* calls: its calls, the validated data its handler observes and its
\* response owe nothing to the other request.
C32_RequestsAreIndependent ==
    \A r \in DOMAIN requests :
        requests[r].state # "idle" => requests[r] = Alone(requests[r])

\* C32 happens: two requests are inside their compiled handlers at once,
\* each past its validation, holding different validated bodies.
C32_Witness ==
    /\ DOMAIN requests = Concurrent
    /\ \A r \in Concurrent :
        /\ requests[r].state = "compiled"
        /\ ValidateCalls(requests[r]) # {}
        /\ "body" \in DOMAIN requests[r].assigned
    /\ requests[1].assigned # requests[2].assigned

\* What a builder holds for method M: its middleware sequence, its schema
\* set and its handler (each of the last two as a set, empty when absent).
MethodState(mpm, sch, hs, M) ==
    << mpm[M],
       IF M \in DOMAIN sch THEN {sch[M]} ELSE {},
       IF M \in DOMAIN hs THEN {hs[M]} ELSE {} >>

\* The methods for which a step changed what the builder holds.
Touched ==
    {M \in RouteMethod :
        MethodState(middlewarePerMethod, schemas, handlers, M)' #
        MethodState(middlewarePerMethod, schemas, handlers, M)}

\* C33: a request handled by the compiled handler of method N has called
\* only user middleware the constructor was given for N and no validation
\* middleware but N's; and a step that changes what the builder holds for
\* one method (a call of schema or on) changes it for that method only, and
\* only when the call did not throw.
C33_MethodsAreIsolated ==
    [][ /\ \A r \in InFlight :
            LET q == requests[r]
                N == LowerMethod(q.method)
            IN InCompiled(q) =>
                \A i \in 1..Len(q.calls) :
                    /\ q.calls[i].fn = "validate" => q.calls[i].id = N
                    /\ q.calls[i].fn = "user" =>
                        \E j \in 1..Len(ConfiguredFor(N)) : ConfiguredFor(N)[j].id = q.calls[i].id
        /\ Cardinality(Touched) <= 1
        /\ Touched # {} => thrown' = NoError
      ]_vars

\* C33 happens: the builder was given the middleware A and B for get and B
\* alone for post and holds a schema set for each; a POST went through B,
\* post's validation and the handler.
C33_Witness ==
    \E r \in InFlight :
        LET q == requests[r] IN
        /\ {"get", "post"} \subseteq DOMAIN schemas
        /\ Len(ConfiguredFor("get")) = 2
        /\ q.method = "POST"
        /\ InCompiled(q)
        /\ Len(q.calls) = 3
        /\ q.calls[1].id = "B"
        /\ q.calls[2] .fn = "validate"
        /\ q.calls[3].fn = "handler"

\* C34: whatever calls of schema and on were made, and whether they threw,
\* the middleware sequence of every method is the middleware the constructor
\* was given for it, followed by the method's validation middleware when a
\* schema set is recorded for the method and by nothing otherwise.
C34_SequenceShape ==
    \A M \in RouteMethod :
        middlewarePerMethod[M] =
            ConfiguredFor(M) \o (IF M \in DOMAIN schemas THEN <<ValidationMiddleware(M)>> ELSE <<>>)

\* C34 happens: post has constructor middleware and a schema set, and the
\* last call, a second schema call for post, threw.
C34_Witness ==
    /\ "post" \in DOMAIN schemas
    /\ ConfiguredFor("post") # <<>>
    /\ thrown = AlreadyDefined("Schemas already defined", "post")
    /\ "get" \notin DOMAIN schemas

\* The methods whose validation middleware is in a sequence of the table:
\* the methods whose schema set its compiled handlers read when they run.
Validating(table) ==
    UNION { {table[K].middlewareSequence[i].id :
                i \in {j \in 1..Len(table[K].middlewareSequence) :
                           table[K].middlewareSequence[j].kind = "validate"}} :
            K \in DOMAIN table }

\* C35: a table build() has returned stays as it is through every later
\* call of on and schema: its keys, and the middleware sequence and handler
\* of each of its compiled handlers; and the schema sets its validation
\* middleware read when they run are recorded and stay the same. A build()
\* made later has a key for every handler registered by then.
C35_BuildIsASnapshot ==
    [][ /\ \A f \in DOMAIN built :
            /\ f \in DOMAIN built'
            /\ built'[f] = built[f]
            /\ \A m \in Validating(built[f]) :
                /\ m \in DOMAIN schemas
                /\ m \in DOMAIN schemas'
                /\ schemas'[m] = schemas[m]
        /\ \A f \in DOMAIN built' \ DOMAIN built :
            DOMAIN built'[f] = {toUpperCase(m) : m \in DOMAIN handlers}
      ]_vars

\* C35 happens: the builder was built, then given a schema set and a
\* handler for post, then built again: the first table has no POST key, the
\* second has one whose handler validates.
C35_Witness ==
    \E f, g \in DOMAIN built :
        /\ "POST" \notin DOMAIN built[f]
        /\ "GET" \in DOMAIN built[f]
        /\ "POST" \in DOMAIN built[g]
        /\ "post" \in Validating(built[g])
        /\ "get" \in DOMAIN schemas
        /\ "get" \notin Validating(built[f])
        /\ "get" \in Validating(built[g])

\* The builder b after schema(M, s) then on(M, h), and after on(M, h) then
\* schema(M, s).
SchemaThenOn(b, M, s, h) == on(M, h, schema(M, s, b))

OnThenSchema(b, M, s, h) == schema(M, s, on(M, h, b))

\* C36: from every state of a builder, schema(M, s) followed by on(M, h)
\* and on(M, h) followed by schema(M, s) leave the same handlers, schema sets
\* and middleware sequences, so that build() returns the same table after
\* either; and when M had neither a schema set nor a handler, the compiled
\* handler of M runs the constructor middleware of M, then the validation of
\* s, then h.
C36_SchemaAndOnCommute ==
    \A c \in SchemaCalls, h \in Listeners :
        LET M  == c.method
            so == SchemaThenOn(BuilderFields, M, c.result, h)
            os == OnThenSchema(BuilderFields, M, c.result, h)
        IN /\ so.handlers = os.handlers
           /\ so.schemas = os.schemas
           /\ so.middlewarePerMethod = os.middlewarePerMethod
           /\ build(so.handlers, so.middlewarePerMethod) = build(os.handlers, os.middlewarePerMethod)
           /\ (M \notin DOMAIN handlers /\ M \notin DOMAIN schemas /\ c.result # CallbackError) =>
                /\ os.schemas[M] = c.result
                /\ build(os.handlers, os.middlewarePerMethod)[toUpperCase(M)] =
                      [middlewareSequence |-> ConfiguredFor(M) \o <<ValidationMiddleware(M)>>,
                       handler |-> h]

\* C36 happens: post was given its schema set and its handler, and the
\* table built from the builder has the POST handler that validates; a
\* request was answered by it.
C36_Witness ==
    \E r \in InFlight :
        LET q == requests[r] IN
        /\ "post" \in DOMAIN schemas
        /\ "post" \in DOMAIN handlers
        /\ thrown = NoError
        /\ InCompiled(q)
        /\ q.method = "POST"
        /\ q.state = "done"
        /\ ValidateCalls(q) # {}
        /\ HandlerCalls(q) # {}
        /\ Compiled(q) = [middlewareSequence |-> ConfiguredFor("post") \o <<ValidationMiddleware("post")>>,
                          handler |-> handlers["post"]]

====
